---- MODULE Spec2Model ----
(***************************************************************************)
(* Investment_Analysis: CSV import of transactions into a Google Sheet     *)
(* (import_with_batching, FinancialTracker.import_csv_transactions), the   *)
(* keyword classifier (FinancialTracker.categorize_transaction) and the    *)
(* batched dashboard writer (FinancialTracker.update_dashboard).           *)
(*                                                                         *)
(* Text is modelled as a sequence of one-character strings, so substring   *)
(* search, case folding, splitting and stripping are computed, not assumed.*)
(***************************************************************************)
EXTENDS Integers, Sequences, FiniteSets, TLC

\* ------------------------------------------------------------------ text

\* str.lower() on the letters that occur in the model's texts.
UpperToLower ==
  [A |-> "a", B |-> "b", C |-> "c", D |-> "d", E |-> "e", F |-> "f", G |-> "g",
   H |-> "h", I |-> "i", J |-> "j", K |-> "k", L |-> "l", M |-> "m", N |-> "n",
   O |-> "o", P |-> "p", Q |-> "q", R |-> "r", S |-> "s", T |-> "t", U |-> "u",
   V |-> "v", W |-> "w", X |-> "x", Y |-> "y", Z |-> "z"]

lower(s) ==
  [k \in 1..Len(s) |-> IF s[k] \in DOMAIN UpperToLower THEN UpperToLower[s[k]] ELSE s[k]]

\* Python's `kw in text` on strings: kw occurs as a contiguous substring.
\* The empty string occurs in every text.
is_in(kw, text) ==
  \E k \in 0..(Len(text) - Len(kw)) : SubSeq(text, k + 1, k + Len(kw)) = kw

\* str.strip(): leading and trailing blanks removed.
strip(s) ==
  LET nb == {k \in 1..Len(s) : s[k] # " "}
  IN  IF nb = {} THEN << >>
      ELSE SubSeq(s, CHOOSE k \in nb : \A j \in nb : k <= j,
                     CHOOSE k \in nb : \A j \in nb : k >= j)

\* str.split(sep): the pieces between the separators; "" gives [""].
RECURSIVE split(_, _)
split(s, sep) ==
  IF \A k \in 1..Len(s) : s[k] # sep THEN <<s>>
  ELSE LET k == CHOOSE k \in 1..Len(s) : s[k] = sep /\ \A j \in 1..(k - 1) : s[j] # sep
       IN  <<SubSeq(s, 1, k - 1)>> \o split(SubSeq(s, k + 1, Len(s)), sep)

\* sep.join(parts)
RECURSIVE join(_, _)
join(parts, sep) ==
  IF parts = << >> THEN << >>
  ELSE IF Len(parts) = 1 THEN parts[1]
  ELSE parts[1] \o sep \o join(Tail(parts), sep)

\* --------------------------------------------------- built-in rule table

\* FinancialTracker.categories: a dict, iterated in insertion order.
categories ==
  << [category |-> "Buy", keywords |->
        << <<"P", "u", "r", "c", "h", "a", "s", "e">>,
           <<"A", "c", "c", "u", "m", "u", "l", "a", "t", "e">>,
           <<"L", "o", "n", "g", " ", "p", "o", "s", "i", "t", "i", "o", "n">>,
           <<"S", "t", "r", "a", "t", "e", "g", "i", "c", " ", "a", "c", "q", "u", "i", "s", "i", "t", "i", "o", "n">>,
           <<"I", "n", "i", "t", "i", "a", "l", " ", "i", "n", "v", "e", "s", "t", "m", "e", "n", "t">> >>],
     [category |-> "Sell", keywords |->
        << <<"S", "e", "l", "l">>,
           <<"L", "i", "q", "u", "i", "d", "a", "t", "e">>,
           <<"C", "l", "o", "s", "e", " ", "p", "o", "s", "i", "t", "i", "o", "n">>,
           <<"P", "r", "o", "f", "i", "t", "-", "t", "a", "k", "i", "n", "g">>,
           <<"S", "t", "r", "a", "t", "e", "g", "i", "c", " ", "d", "i", "v", "e", "s", "t", "m", "e", "n", "t">> >>],
     [category |-> "Dividend", keywords |->
        << <<"D", "i", "v", "i", "d", "e", "n", "d">>,
           <<"p", "a", "y", "o", "u", "t">>,
           <<"i", "n", "c", "o", "m", "e">> >>],
     [category |-> "Fee", keywords |->
        << <<"M", "a", "n", "a", "g", "e", "m", "e", "n", "t", " ", "f", "e", "e">>,
           <<"A", "d", "m", "i", "n", "i", "s", "t", "r", "a", "t", "i", "v", "e", " ", "e", "x", "p", "e", "n", "s", "e">>,
           <<"T", "r", "a", "d", "i", "n", "g", " ", "c", "o", "m", "m", "i", "s", "s", "i", "o", "n">>,
           <<"R", "e", "s", "e", "a", "r", "c", "h">>,
           <<"a", "u", "d", "i", "t">>,
           <<"P", "e", "r", "f", "o", "r", "m", "a", "n", "c", "e", " ", "f", "e", "e">> >>],
     [category |-> "Capital", keywords |->
        << <<"I", "n", "i", "t", "i", "a", "l", " ", "f", "u", "n", "d", " ", "c", "a", "p", "i", "t", "a", "l">>,
           <<"d", "e", "p", "l", "o", "y", "m", "e", "n", "t">> >>],
     [category |-> "Other", keywords |-> << >>] >>

\* The rows create_financial_spreadsheet appends to a new Categories
\* worksheet (below its header row): [category, ", ".join(keywords)].
SeededCategoryRows ==
  [k \in 1..Len(categories) |->
     <<categories[k].category, join(categories[k].keywords, <<",", " ">>)>>]

\* The closed enumeration of the data model.
CategoryEnum == {"Buy", "Sell", "Dividend", "Fee", "Capital", "Income", "Other"}

\* ------------------------------------------------------------ classifier

\* The keywords of one Categories row: [k.strip().lower() for k in row[1].split(',')]
row_keywords(row) ==
  LET parts == split(row[2], ",")
  IN  [k \in 1..Len(parts) |-> strip(lower(parts[k]))]

\* Lines 205-206: some non-empty keyword of the row occurs in description or merchant.
row_hits(row, description, merchant_name) ==
  /\ Len(row) >= 2
  /\ LET keywords == row_keywords(row)
     IN  \E k \in 1..Len(keywords) :
            /\ keywords[k] # << >>
            /\ (is_in(keywords[k], description) \/ is_in(keywords[k], merchant_name))

\* Lines 210-213: some keyword of the built-in entry occurs (no emptiness test).
default_hits(entry, description, merchant_name) ==
  \E k \in 1..Len(entry.keywords) :
     \/ is_in(lower(entry.keywords[k]), description)
     \/ is_in(lower(entry.keywords[k]), merchant_name)

\* Lines 215-220: the income heuristic, then the default category.
income_or_other(description) ==
  IF \/ is_in(<<"i", "n", "c", "o", "m", "e">>, lower(description))
     \/ is_in(<<"d", "e", "p", "o", "s", "i", "t">>, lower(description))
     \/ is_in(<<"p", "a", "y", "r", "o", "l", "l">>, lower(description))
  THEN "Income" ELSE "Other"

\* categorize_transaction with the scan turned round: the last row with a hit
\* gives the category.
categorize_transaction_last_hit(description, merchant_name, read_ok, category_data) ==
  LET d == lower(description)
      m == lower(merchant_name)
  IN  IF read_ok
      THEN LET hits == {k \in 1..Len(category_data) : row_hits(category_data[k], d, m)}
           IN  IF hits # {}
               THEN category_data[CHOOSE k \in hits : \A j \in hits : k >= j][1]
               ELSE income_or_other(d)
      ELSE LET hits == {k \in 1..Len(categories) : default_hits(categories[k], d, m)}
           IN  IF hits # {}
               THEN categories[CHOOSE k \in hits : \A j \in hits : k >= j].category
               ELSE income_or_other(d)

\* categorize_transaction with the built-in table scanned after a worksheet
\* in which no row has a hit, as well as in the except branch.
categorize_transaction_defaults_after(description, merchant_name, read_ok, category_data) ==
  LET d == lower(description)
      m == lower(merchant_name)
      hits == {k \in 1..Len(category_data) : row_hits(category_data[k], d, m)}
      default == {k \in 1..Len(categories) : default_hits(categories[k], d, m)}
  IN  IF read_ok /\ hits # {}
      THEN category_data[CHOOSE k \in hits : \A j \in hits : k <= j][1]
      ELSE IF default # {}
      THEN categories[CHOOSE k \in default : \A j \in default : k <= j].category
      ELSE income_or_other(d)

\* FinancialTracker.categorize_transaction. `read_ok` is whether
\* categories_worksheet.get_all_values() returned; `category_data` is what it
\* returned (the rows below the header). The first row, in sheet order, with a
\* hit returns its category cell as it stands; the built-in table is scanned
\* only in the except branch.
categorize_transaction(description, merchant_name, read_ok, category_data) ==
  LET d == lower(description)
      m == lower(merchant_name)
  IN  IF read_ok
      THEN LET hits == {k \in 1..Len(category_data) : row_hits(category_data[k], d, m)}
           IN  IF hits # {}
               THEN category_data[CHOOSE k \in hits : \A j \in hits : k <= j][1]
               ELSE income_or_other(d)
      ELSE LET hits == {k \in 1..Len(categories) : default_hits(categories[k], d, m)}
           IN  IF hits # {}
               THEN categories[CHOOSE k \in hits : \A j \in hits : k <= j].category
               ELSE income_or_other(d)

\* ------------------------------------------------------------ normalizer

DecimalDigits == <<"0", "1", "2", "3", "4", "5", "6", "7", "8", "9">>

\* str(n) for a natural number, as f"...{n}..." formats it.
RECURSIVE str_int(_)
str_int(n) ==
  IF n < 10 THEN <<DecimalDigits[n + 1]>>
  ELSE str_int(n \div 10) \o <<DecimalDigits[(n % 10) + 1]>>

\* str.replace(ch, ''): every occurrence of the character removed.
remove_char(s, ch) == SelectSeq(s, LAMBDA c : c # ch)

\* Whether float(s) returns for a decimal numeral: blanks around it are
\* ignored, then an optional sign, digits with at most one point, at least one
\* digit. (Exponents, inf/nan and digit-group underscores do not occur in the
\* model's inputs.)  Otherwise float raises ValueError.
float_parses(s) ==
  LET t      == strip(s)
      body   == IF t # << >> /\ t[1] \in {"-", "+"} THEN Tail(t) ELSE t
      digits == {k \in 1..Len(body) : \E n \in 1..10 : body[k] = DecimalDigits[n]}
      points == {k \in 1..Len(body) : body[k] = "."}
  IN  /\ digits # {}
      /\ digits \cup points = 1..Len(body)
      /\ Cardinality(points) <= 1

\* Lines 89-93 (145-150 of the tracker): float(Amount), and on ValueError
\* float of the amount with '$' and ',' removed.  The second float is not
\* guarded: parses = FALSE stands for the ValueError that leaves the loop.
\* `text` is the numeral float accepted.
amount_of(raw) ==
  LET cleaned == remove_char(remove_char(raw, "$"), ",")
  IN  IF float_parses(raw) THEN [parses |-> TRUE, text |-> strip(raw)]
      ELSE IF float_parses(cleaned) THEN [parses |-> TRUE, text |-> strip(cleaned)]
      ELSE [parses |-> FALSE, text |-> << >>]

\* dict.get(key, default) on a csv.DictReader row.
dict_get(row, key, default) == IF key \in DOMAIN row THEN row[key] ELSE default

\* f"csv_{seq}_{int(datetime.now().timestamp())}"
synthesized_id(seq, ts) == <<"c", "s", "v", "_">> \o str_int(seq) \o <<"_">> \o str_int(ts)

\* ---------------------------------------------------------------- inputs

\* CSV records.  A CSV whose header has a TransactionID column gives every
\* row the key (possibly with an empty value); a CSV without the column gives
\* no row the key.
RecordsWithId ==
  { [TransactionID |-> <<"t", "x", "_", "1">>, Amount |-> <<"-", "4", "5", ".", "6", "7">>,
     Description |-> <<"P", "u", "r", "c", "h", "a", "s", "e", " ", "o", "f", " ", "A", "p", "p", "l", "e", " ", "(", "A", "A", "P", "L", ")">>, Merchant |-> <<"A", "p", "p", "l", "e">>],
    [TransactionID |-> << >>, Amount |-> <<"$", "1", ",", "2", "5", "0", ".", "5", "0">>,
     Description |-> <<"P", "a", "y", "r", "o", "l", "l", " ", "d", "e", "p", "o", "s", "i", "t">>, Merchant |-> << >>],
    [TransactionID |-> <<"t", "x", "_", "2">>, Amount |-> <<"a", "b", "c">>,
     Description |-> <<"C", "o", "f", "f", "e", "e">>, Merchant |-> << >>] }

RecordsWithoutId ==
  { [Amount |-> <<"-", "4", "5", ".", "6", "7">>,
     Description |-> <<"P", "u", "r", "c", "h", "a", "s", "e", " ", "o", "f", " ", "A", "p", "p", "l", "e", " ", "(", "A", "A", "P", "L", ")">>, Merchant |-> <<"A", "p", "p", "l", "e">>] }

\* Longest CSV, most import runs, largest batch_size argument, most failures
\* of the environment (a sink call that raises, a missing file) in a behaviour.
MaxCsv == 2
MaxRuns == 2
MaxBatch == 2
MaxFaults == 1

SeqsUpTo(S, n) == UNION {[1..k -> S] : k \in 0..n}

CsvFiles == SeqsUpTo(RecordsWithId, MaxCsv) \cup SeqsUpTo(RecordsWithoutId, MaxCsv)

\* Contents of a Categories worksheet edited by its owner: a category name
\* outside the enumeration, an empty category cell, a row with one cell.
EditedCategoryRows ==
  << <<"Groceries", <<"c", "o", "f", "f", "e", "e", ",", " ", "t", "e", "a">>>>,
     <<"", <<"P", "a", "y", "r", "o", "l", "l">>>>,
     <<"Fee">>,
     <<"Sell", <<"s", "e", "l", "l", ",", " ", "p", "u", "r", "c", "h", "a", "s", "e">>>> >>

\* ----------------------------------------------------------------- state

VARIABLES
  csv_file,                 \* the records of the CSV file the imports are given
  transactions_worksheet,   \* data rows of the Transactions worksheet in use
  categories_worksheet,     \* rows of the Categories worksheet below its header
  now,                      \* int(datetime.now().timestamp()), later in every call
  pc,                       \* where the running call stands; "idle" between calls
  entry,                    \* the running (or last) call: "iwb", "fit" or "none"
  transactions,             \* the rows read from the CSV file
  batch_size,               \* import_with_batching's batch_size argument
  existing_transaction_ids, \* column 6 as read at the start of the run
  new_transactions,         \* import_with_batching: rows left by the id filter
  i,                        \* index of the batch (iwb) or of the record (fit), from 0
  rows_to_add,              \* import_with_batching: rows prepared for the batch
  total_imported,           \* import_with_batching's counter
  new_rows,                 \* import_csv_transactions' counter
  result,                   \* what the last call returned, or that it raised
  all_updates,              \* update_dashboard: number of queued (cell, value) writes
  update_i,                 \* update_dashboard: index of the update batch, from 0
  log,                      \* sink writes and pacing sleeps of the running call, in order
  runs,                     \* import calls started so far
  appended,                 \* rows the running call appended to Transactions
  sink_errors,              \* sink calls that failed during the running call
  prev,                     \* the call before the running one
  faults,                   \* failures of the environment so far (sink calls, files)
  calls,                    \* the classifier's last calls: arguments, read outcome, result
  batch_updates,            \* update_dashboard's batch_updates argument
  format_i,                 \* update_dashboard: index of the format, from 0
  derived                   \* the tables last computed from the Transactions rows

vars ==
  <<csv_file, transactions_worksheet, categories_worksheet, now, pc, entry, transactions,
    batch_size, existing_transaction_ids, new_transactions, i, rows_to_add,
    total_imported, new_rows, result, all_updates, update_i, log, runs,
    appended, sink_errors, prev, faults, calls, batch_updates, format_i, derived>>

sink_vars == <<transactions_worksheet, categories_worksheet>>
iwb_vars  == <<batch_size, new_transactions, rows_to_add, total_imported>>
\* No table has been computed.
NoTables == [kind |-> "none"]

dash_vars == <<all_updates, update_i, batch_updates, format_i, derived>>

NoResult   == [kind |-> "none",   value |-> 0]
Raised     == [kind |-> "raised", value |-> 0]
ReturnTrue == [kind |-> "bool",   value |-> 1]
ReturnFalse == [kind |-> "bool",  value |-> 0]
ReturnInt(n) == [kind |-> "int",  value |-> n]
ReturnNone == [kind |-> "None",   value |-> 0]

Min(a, b) == IF a <= b THEN a ELSE b

\* ------------------------------------------------- numbers, dates, order

\* The digit a character stands for.
digit_value(c) == CHOOSE n \in 0..9 : DecimalDigits[n + 1] = c

is_digits(s) == s # << >> /\ \A k \in 1..Len(s) : \E n \in 0..9 : DecimalDigits[n + 1] = s[k]

\* int() of a string of digits.
RECURSIVE int_of(_)
int_of(s) ==
  IF s = << >> THEN 0
  ELSE 10 * int_of(SubSeq(s, 1, Len(s) - 1)) + digit_value(s[Len(s)])

\* astype(float) / pd.to_numeric on the numeral of a whole amount: an
\* optional sign and digits.  (The ledgers of the model hold whole amounts.)
to_float(s) ==
  IF s[1] = "-" THEN 0 - int_of(Tail(s))
  ELSE IF s[1] = "+" THEN int_of(Tail(s))
  ELSE int_of(s)

abs(x) == IF x < 0 THEN 0 - x ELSE x

\* str(n) padded with zeros on the left to `width` characters (%m, %d, %Y).
RECURSIVE zero_pad(_, _)
zero_pad(s, width) == IF Len(s) >= width THEN s ELSE zero_pad(<<"0">> \o s, width)

\* f"{n:,}" for a natural number: groups of three digits parted by commas.
RECURSIVE group_thousands(_)
group_thousands(n) ==
  IF n < 1000 THEN str_int(n)
  ELSE group_thousands(n \div 1000) \o <<",">> \o zero_pad(str_int(n % 1000), 3)

\* f"${amount:,.2f}" for a whole amount: the sign follows the dollar sign.
format_dollars(amount) ==
  <<"$">> \o (IF amount < 0 THEN <<"-">> ELSE << >>)
          \o group_thousands(abs(amount)) \o <<".", "0", "0">>

days_in_month(year, month) ==
  IF month \in {4, 6, 9, 11} THEN 30
  ELSE IF month # 2 THEN 31
  ELSE IF year % 4 = 0 /\ (year % 100 # 0 \/ year % 400 = 0) THEN 29 ELSE 28

\* datetime.strptime(date_str, "%Y-%m-%d"): four digits of year, one or two
\* of month and of day, parted by hyphens, naming a day of the calendar;
\* ok = FALSE stands for the ValueError.
strptime(date_str) ==
  LET parts == split(date_str, "-")
      shape == /\ Len(parts) = 3
               /\ is_digits(parts[1]) /\ Len(parts[1]) = 4
               /\ is_digits(parts[2]) /\ Len(parts[2]) <= 2
               /\ is_digits(parts[3]) /\ Len(parts[3]) <= 2
  IN  IF ~shape THEN [ok |-> FALSE, year |-> 0, month |-> 0, day |-> 0]
      ELSE LET y == int_of(parts[1])
               m == int_of(parts[2])
               d == int_of(parts[3])
           IN  IF y >= 1 /\ m \in 1..12 /\ d \in 1..days_in_month(y, m)
               THEN [ok |-> TRUE, year |-> y, month |-> m, day |-> d]
               ELSE [ok |-> FALSE, year |-> 0, month |-> 0, day |-> 0]

\* date.strftime("%Y-%m-%d") and date.strftime("%Y-%m")
strftime_Y_m(date) == zero_pad(str_int(date.year), 4) \o <<"-">> \o zero_pad(str_int(date.month), 2)

strftime_Y_m_d(date) == strftime_Y_m(date) \o <<"-">> \o zero_pad(str_int(date.day), 2)

\* The characters of the model's keys in code-point order, and ord() on them.
CodePoints ==
  <<" ", "$", "(", ")", ",", "-", ".", "/", "0", "1", "2", "3", "4", "5", "6", "7",
    "8", "9", "A", "B", "C", "D", "E", "F", "G", "H", "I", "J", "K", "L", "M", "N",
    "O", "P", "Q", "R", "S", "T", "U", "V", "W", "X", "Y", "Z", "_", "a", "b", "c",
    "d", "e", "f", "g", "h", "i", "j", "k", "l", "m", "n", "o", "p", "q", "r", "s",
    "t", "u", "v", "w", "x", "y", "z">>

ord(c) == CHOOSE n \in 1..Len(CodePoints) : CodePoints[n] = c

\* a < b on strings: by the first character that differs, a proper prefix
\* first.
text_less(a, b) ==
  \/ Len(a) < Len(b) /\ SubSeq(b, 1, Len(a)) = a
  \/ \E k \in 1..Min(Len(a), Len(b)) :
       /\ SubSeq(a, 1, k - 1) = SubSeq(b, 1, k - 1)
       /\ ord(a[k]) < ord(b[k])

\* The category and transaction-type names in sorted order, as pandas orders
\* the columns of a pivot table.
SortedNames ==
  <<"Buy", "Capital", "Dividend", "Fee", "Income", "Initial Capital", "Other", "Sell">>

name_less(a, b) ==
  (CHOOSE n \in 1..Len(SortedNames) : SortedNames[n] = a)
    < (CHOOSE n \in 1..Len(SortedNames) : SortedNames[n] = b)

\* formatted_date with the raw string dropped when it does not parse.
formatted_date_blank(date_str) ==
  IF strptime(date_str).ok THEN strftime_Y_m_d(strptime(date_str)) ELSE << >>

\* Lines 79-85 (133-141 of the tracker) with date_format "%Y-%m-%d": the
\* date re-formatted, or on ValueError the string as it was read.
formatted_date(date_str) ==
  IF strptime(date_str).ok THEN strftime_Y_m_d(strptime(date_str)) ELSE date_str

\* The environment fails once for every FALSE among `oks`, within its budget.
Fail(oks) ==
  LET n == Cardinality({k \in 1..Len(oks) : ~oks[k]})
  IN  /\ faults + n <= MaxFaults
      /\ faults' = faults + n

\* `x in xs` on a list.
in_list(x, xs) == \E k \in 1..Len(xs) : xs[k] = x

\* col_values reading column 3 (Amount) where column 6 was meant.
col_values_3(rows) == [k \in 1..Len(rows) |-> rows[k].Amount]

\* transactions_worksheet.col_values(6)[1:]: the cells of the Transaction ID
\* column below the header, down to the last one that is not empty (the sink
\* leaves trailing empty cells out of the values it returns).
col_values_6(rows) ==
  LET ids    == [k \in 1..Len(rows) |-> rows[k].TransactionID]
      filled == {k \in 1..Len(rows) : ids[k] # << >>}
  IN  IF filled = {} THEN << >>
      ELSE SubSeq(ids, 1, CHOOSE k \in filled : \A j \in filled : j <= k)

\* [xs[k:k+n] for k in range(0, len(xs), n)]: the number of slices and the
\* bounds (1-based, inclusive) of slice number b (from 0).
num_batches(n_items, size) == (n_items + size - 1) \div size
batch_lo(b, size) == b * size + 1
batch_hi(b, size, n_items) == Min((b + 1) * size, n_items)

Init ==
  /\ csv_file \in CsvFiles
  /\ transactions_worksheet = << >>
  /\ categories_worksheet \in {SeededCategoryRows, EditedCategoryRows}
  /\ now = 0
  /\ pc = "idle"
  /\ entry = "none"
  /\ transactions = << >>
  /\ batch_size = 1
  /\ existing_transaction_ids = << >>
  /\ new_transactions = << >>
  /\ i = 0
  /\ rows_to_add = << >>
  /\ total_imported = 0
  /\ new_rows = 0
  /\ result = NoResult
  /\ all_updates = 0
  /\ update_i = 0
  /\ batch_updates = TRUE
  /\ format_i = 0
  /\ derived = NoTables
  /\ log = << >>
  /\ runs = 0
  /\ appended = 0
  /\ sink_errors = {}
  /\ prev = [imported |-> FALSE]
  /\ faults = 0
  /\ calls = << >>

\* The bookkeeping every call starts with.  prev.imported: the call before
\* this one read the CSV file, wrote to the sheet that existed, and none of
\* its appends failed.
BeginCall(name, csv) ==
  /\ pc = "idle"
  /\ runs < MaxRuns
  /\ runs' = runs + 1
  /\ prev' = [imported |-> /\ runs > 0
                           /\ transactions = csv_file
                           /\ sink_errors \cap {"open", "append"} = {}]
  /\ entry' = name
  /\ transactions' = csv
  /\ now' = now + 1
  /\ log' = << >>
  /\ appended' = 0
  /\ i' = 0
  /\ rows_to_add' = << >>
  /\ total_imported' = 0
  /\ new_rows' = 0
  /\ UNCHANGED <<csv_file, dash_vars, calls>>

\* ------------------------------------------------- import_with_batching

\* Lines 22-66.  files_ok: the CSV and the credentials file exist.  open is
\* create_financial_spreadsheet's outcome: "opened" (the sheet and its
\* worksheets exist), "created" (open_by_key raised APIError, or open raised
\* SpreadsheetNotFound, and gc.create made a new sheet with a header-only
\* Transactions worksheet and the seeded Categories worksheet) or "raised"
\* (any other exception, which nothing catches).  ids_ok: col_values(6)
\* returned; when it raises, the list of existing ids is empty.
StartImportWithBatching(size, files_ok, open, ids_ok) ==
  /\ BeginCall("iwb", IF files_ok /\ open # "raised" THEN csv_file ELSE << >>)
  /\ Fail(<<files_ok, open = "opened", ids_ok>>)
  /\ batch_size' = size
  /\ IF ~files_ok
     THEN /\ result' = ReturnFalse
          /\ pc' = "idle"
          /\ sink_errors' = {}
          /\ UNCHANGED <<sink_vars, existing_transaction_ids, new_transactions>>
     ELSE IF open = "raised"
     THEN /\ result' = Raised
          /\ pc' = "idle"
          /\ sink_errors' = {"open"}
          /\ UNCHANGED <<sink_vars, existing_transaction_ids, new_transactions>>
     ELSE LET sheet_rows == IF open = "created" THEN << >> ELSE transactions_worksheet
              ids  == IF ids_ok THEN col_values_6(sheet_rows) ELSE << >>
              kept == SelectSeq(csv_file,
                        LAMBDA t : ~in_list(dict_get(t, "TransactionID", << >>), ids))
          IN  /\ transactions_worksheet' = sheet_rows
              /\ categories_worksheet' =
                   IF open = "created" THEN SeededCategoryRows ELSE categories_worksheet
              /\ existing_transaction_ids' = ids
              /\ new_transactions' = kept
              /\ sink_errors' = (IF open = "created" THEN {"open"} ELSE {})
                                  \cup (IF ids_ok THEN {} ELSE {"ids"})
              /\ IF kept = << >>
                 THEN result' = ReturnTrue /\ pc' = "idle"
                 ELSE result' = NoResult /\ pc' = "iwb_prepare"

\* Lines 78-120, one record of batch i.  categories_ok: the classifier's read
\* of the Categories worksheet returned.  An amount float rejects twice
\* raises ValueError out of import_with_batching.
PrepareRow(categories_ok) ==
  /\ pc = "iwb_prepare"
  /\ Fail(<<categories_ok>>)
  /\ LET n  == Len(new_transactions)
         t  == new_transactions[batch_lo(i, batch_size) + Len(rows_to_add)]
         amount == amount_of(dict_get(t, "Amount", <<"0">>))
         description == dict_get(t, "Description", << >>)
         merchant == dict_get(t, "Merchant", << >>)
         row == [Date |-> formatted_date(dict_get(t, "Date", << >>)),
                 Amount |-> amount.text,
                 Category |-> categorize_transaction(description, merchant,
                                categories_ok, categories_worksheet),
                 TransactionID |-> dict_get(t, "TransactionID", synthesized_id(i, now))]
         size == batch_hi(i, batch_size, n) - batch_lo(i, batch_size) + 1
     IN  IF ~amount.parses
         THEN /\ result' = Raised
              /\ pc' = "idle"
              /\ UNCHANGED <<rows_to_add, sink_errors>>
         ELSE /\ rows_to_add' = Append(rows_to_add, row)
              /\ pc' = IF Len(rows_to_add) + 1 = size THEN "iwb_write" ELSE "iwb_prepare"
              /\ UNCHANGED <<result, sink_errors>>
  /\ UNCHANGED <<csv_file, sink_vars, now, entry, transactions, batch_size,
                 existing_transaction_ids, new_transactions, i, total_imported,
                 new_rows, dash_vars, log, runs, appended, prev, calls>>

\* Lines 122-144, the write of batch i.  append_ok: append_rows returned.  The
\* pacing sleep stands after append_rows inside the same try, so an
\* append_rows that raises skips it.  (get_all_values at line 127 is read
\* into a local nobody uses, and its failure is swallowed.)
WriteBatch(append_ok) ==
  /\ pc = "iwb_write"
  /\ Fail(<<append_ok>>)
  /\ LET n    == Len(new_transactions)
         nb   == num_batches(n, batch_size)
         call == [op |-> "append_rows", lo |-> batch_lo(i, batch_size),
                  hi |-> batch_hi(i, batch_size, n), ok |-> append_ok]
         sleeps == append_ok /\ i < nb - 1
     IN  /\ IF append_ok
            THEN /\ transactions_worksheet' = transactions_worksheet \o rows_to_add
                 /\ total_imported' = total_imported + Len(rows_to_add)
                 /\ appended' = appended + Len(rows_to_add)
                 /\ UNCHANGED sink_errors
            ELSE /\ sink_errors' = sink_errors \cup {"append"}
                 /\ UNCHANGED <<transactions_worksheet, total_imported, appended>>
         /\ log' = log \o <<call>> \o
                     (IF sleeps THEN <<[op |-> "sleep", lo |-> 0, hi |-> 0, ok |-> TRUE]>>
                      ELSE << >>)
         /\ i' = i + 1
         /\ rows_to_add' = << >>
         /\ pc' = IF i + 1 < nb THEN "iwb_prepare" ELSE "iwb_finish"
  /\ UNCHANGED <<csv_file, categories_worksheet, now, entry, transactions, batch_size,
                 existing_transaction_ids, new_transactions, new_rows, result,
                 dash_vars, runs, prev, calls>>

\* Lines 146-168: the dashboard is updated once, after the last batch, when
\* something was imported; the function returns True either way.
FinishImportWithBatching ==
  /\ pc = "iwb_finish"
  /\ UNCHANGED faults
  /\ IF total_imported > 0
     THEN pc' = "dash_start" /\ UNCHANGED result
     ELSE pc' = "idle" /\ result' = ReturnTrue
  /\ UNCHANGED <<csv_file, sink_vars, now, entry, transactions, existing_transaction_ids,
                 iwb_vars, i, new_rows, dash_vars, log, runs, appended,
                 sink_errors, prev, calls>>

\* The figures import_with_batching has printed when it returns True after
\* its batch loop: "Read {len(transactions)} transactions from CSV" (line 43),
\* "Found {len(new_transactions)} new transactions to import" (line 54) and
\* "Successfully imported {total_imported} transactions" (line 146).  A
\* failed batch is printed when it fails (line 143); no figure counts them.
final_report ==
  [read     |-> Len(transactions),
   new      |-> Len(new_transactions),
   imported |-> total_imported]

\* ------------------------------- FinancialTracker.import_csv_transactions

\* Lines 111-126.  ids_ok: col_values(6) returned; the bare except at line
\* 115 turns a failed read into an empty list.  file_ok: open(csv_file_path)
\* returned; when it raises, the except at line 185 returns 0.
StartImportCsvTransactions(file_ok, ids_ok) ==
  /\ BeginCall("fit", IF file_ok THEN csv_file ELSE << >>)
  /\ Fail(<<file_ok, ids_ok>>)
  /\ existing_transaction_ids' =
       IF ids_ok THEN col_values_6(transactions_worksheet) ELSE << >>
  /\ sink_errors' = IF ids_ok THEN {} ELSE {"ids"}
  /\ IF file_ok
     THEN result' = NoResult /\ pc' = IF csv_file = << >> THEN "fit_finish" ELSE "fit_loop"
     ELSE result' = ReturnInt(0) /\ pc' = "idle"
  /\ UNCHANGED <<sink_vars, batch_size, new_transactions>>

\* The record loop with the id of every appended row added to the list of
\* existing ids as it goes.
ImportRecordProgressive(categories_ok, append_ok) ==
  /\ pc = "fit_loop"
  /\ Fail(<<categories_ok, append_ok>>)
  /\ LET t == transactions[i + 1]
         transaction_id == dict_get(t, "TransactionID", << >>)
         amount == amount_of(dict_get(t, "Amount", <<"0">>))
         description == dict_get(t, "Description", << >>)
         merchant == dict_get(t, "Merchant", << >>)
         row == [Date |-> formatted_date(dict_get(t, "Date", << >>)),
                 Amount |-> amount.text,
                 Category |-> categorize_transaction(description, merchant,
                                categories_ok, categories_worksheet),
                 TransactionID |-> IF transaction_id # << >> THEN transaction_id
                                   ELSE synthesized_id(new_rows, now)]
         next_pc == IF i + 1 < Len(transactions) THEN "fit_loop" ELSE "fit_finish"
     IN  IF in_list(transaction_id, existing_transaction_ids)
         THEN /\ pc' = next_pc
              /\ UNCHANGED <<transactions_worksheet, new_rows, appended, result, sink_errors, existing_transaction_ids>>
         ELSE IF ~amount.parses
         THEN /\ pc' = "idle"
              /\ result' = ReturnInt(0)
              /\ UNCHANGED <<transactions_worksheet, new_rows, appended, sink_errors, existing_transaction_ids>>
         ELSE IF ~append_ok
         THEN /\ pc' = "idle"
              /\ result' = ReturnInt(0)
              /\ sink_errors' = sink_errors \cup {"append"}
              /\ UNCHANGED <<transactions_worksheet, new_rows, appended, existing_transaction_ids>>
         ELSE /\ pc' = next_pc
              /\ transactions_worksheet' = Append(transactions_worksheet, row)
              /\ new_rows' = new_rows + 1
              /\ appended' = appended + 1
              /\ existing_transaction_ids' = Append(existing_transaction_ids, transaction_id)
              /\ UNCHANGED <<result, sink_errors>>
  /\ i' = i + 1
  /\ UNCHANGED <<csv_file, categories_worksheet, now, entry, transactions,
                 iwb_vars, dash_vars, log, runs, prev, calls>>

\* Lines 127-175, one iteration of the record loop.  A ValueError of the
\* second float, or an append_row that raises, reaches the except at line 185:
\* the call returns 0 and the remaining records are not looked at.
ImportRecord(categories_ok, append_ok) ==
  /\ pc = "fit_loop"
  /\ Fail(<<categories_ok, append_ok>>)
  /\ LET t == transactions[i + 1]
         transaction_id == dict_get(t, "TransactionID", << >>)
         amount == amount_of(dict_get(t, "Amount", <<"0">>))
         description == dict_get(t, "Description", << >>)
         merchant == dict_get(t, "Merchant", << >>)
         row == [Date |-> formatted_date(dict_get(t, "Date", << >>)),
                 Amount |-> amount.text,
                 Category |-> categorize_transaction(description, merchant,
                                categories_ok, categories_worksheet),
                 TransactionID |-> IF transaction_id # << >> THEN transaction_id
                                   ELSE synthesized_id(new_rows, now)]
         next_pc == IF i + 1 < Len(transactions) THEN "fit_loop" ELSE "fit_finish"
     IN  IF in_list(transaction_id, existing_transaction_ids)
         THEN /\ pc' = next_pc
              /\ UNCHANGED <<transactions_worksheet, new_rows, appended, result, sink_errors>>
         ELSE IF ~amount.parses
         THEN /\ pc' = "idle"
              /\ result' = ReturnInt(0)
              /\ UNCHANGED <<transactions_worksheet, new_rows, appended, sink_errors>>
         ELSE IF ~append_ok
         THEN /\ pc' = "idle"
              /\ result' = ReturnInt(0)
              /\ sink_errors' = sink_errors \cup {"append"}
              /\ UNCHANGED <<transactions_worksheet, new_rows, appended>>
         ELSE /\ pc' = next_pc
              /\ transactions_worksheet' = Append(transactions_worksheet, row)
              /\ new_rows' = new_rows + 1
              /\ appended' = appended + 1
              /\ UNCHANGED <<result, sink_errors>>
  /\ i' = i + 1
  /\ UNCHANGED <<csv_file, categories_worksheet, now, entry, transactions,
                 existing_transaction_ids, iwb_vars, dash_vars, log, runs, prev, calls>>

\* Lines 177-183: the dashboard is updated when something was added; the call
\* returns new_rows.
FinishImportCsvTransactions ==
  /\ pc = "fit_finish"
  /\ UNCHANGED faults
  /\ IF new_rows > 0
     THEN pc' = "dash_start" /\ UNCHANGED result
     ELSE pc' = "idle" /\ result' = ReturnInt(new_rows)
  /\ UNCHANGED <<csv_file, sink_vars, now, entry, transactions, existing_transaction_ids,
                 iwb_vars, i, new_rows, dash_vars, log, runs, appended,
                 sink_errors, prev, calls>>

\* ---------------------------------------- FinancialTracker.update_dashboard

\* Most accounts, stock symbols and months of a dashboard.
MaxFunds == 2
MaxStocks == 2
MaxMonths == 1

\* What the queue of writes depends on: the number of accounts (groupby
\* keeps every string, so at least one), of stock symbols, of months (none
\* when every date is empty), of stocks with a negative sum, whether a
\* Dividend row exists and the number of stocks among the Dividend rows.
DashboardShapes ==
  { s \in [funds : 1..MaxFunds, stocks : 0..MaxStocks, months : 0..MaxMonths,
           held : 0..MaxStocks, dividend : BOOLEAN, dividend_stocks : 0..MaxStocks] :
      /\ s.held <= s.stocks
      /\ s.dividend_stocks <= s.stocks
      /\ ~s.dividend => s.dividend_stocks = 0 }

\* len(all_updates) at line 398.
dashboard_update_count(shape) ==
    1                                          \* A1
  + 1 + 12                                     \* A3, summary_updates
  + 1 + 2 * shape.funds                        \* A11, fund rows
  + 1 + 2 * shape.stocks                       \* Stock Holdings, stock rows
  + 3 + (IF shape.months > 0 THEN 1 ELSE 0)    \* D3, D4, D5, D6
  + 2 + (IF shape.held > 0 THEN 1 ELSE 0)      \* Stock Allocation
  + 2 + (IF shape.funds > 0 THEN 1 ELSE 0)     \* Fund Performance
  + (IF shape.dividend
     THEN 2 + (IF shape.dividend_stocks > 0 THEN 1 ELSE 0)
     ELSE 0)                                   \* Dividend Income by Stock

\* batch_size at line 401.
UpdateBatchSize == 10

\* How update_dashboard's caller goes on.  import_with_batching catches an
\* exception (lines 151-156) and returns True; import_csv_transactions lets
\* it reach the except at line 185 and returns 0, and otherwise returns
\* new_rows.  Called on its own ("direct"), update_dashboard returns None or
\* raises.
ReturnFromDashboard(raised) ==
  /\ pc' = "idle"
  /\ result' = IF entry = "iwb" THEN ReturnTrue
               ELSE IF entry = "fit"
               THEN (IF raised THEN ReturnInt(0) ELSE ReturnInt(new_rows))
               ELSE (IF raised THEN Raised ELSE ReturnNone)

\* The cells update_dashboard queues a format for (lines 271, 286, 310, 322
\* and 339), in the order of all_formats.
all_formats == <<"A1", "A3", "A11", "A{row_offset}", "D3">>

\* Lines 230-396.  batch: the batch_updates argument (both importers call
\* update_dashboard() with the default, True).  outcome: "ok"; "read_raised"
\* (get_all_values raised); "frame_raised" (astype(float) or to_datetime
\* rejected a cell); "clear_raised" (dashboard_worksheet.clear raised).
StartUpdateDashboard(batch, outcome, shape) ==
  /\ pc = "dash_start"
  /\ entry # "direct" => batch
  /\ Fail(<<outcome = "ok">>)
  /\ IF outcome = "ok" /\ transactions_worksheet # << >>
     THEN /\ all_updates' = dashboard_update_count(shape)
          /\ update_i' = 0
          /\ batch_updates' = batch
          /\ format_i' = 0
          /\ pc' = IF batch THEN "dash_write" ELSE "dash_update"
          /\ UNCHANGED <<result, sink_errors, derived>>
     ELSE /\ ReturnFromDashboard(outcome # "ok")
          /\ sink_errors' = sink_errors \cup
               (IF outcome \in {"read_raised", "clear_raised"} THEN {"dashboard"} ELSE {})
          /\ UNCHANGED dash_vars
  /\ UNCHANGED <<csv_file, sink_vars, now, entry, transactions, existing_transaction_ids,
                 iwb_vars, i, new_rows, log, runs, appended, prev, calls>>

\* Lines 406-418, one update batch.  update_ok: batch_update returned.  No
\* try surrounds the call: when it raises, update_dashboard is left at once.
\* The sleep follows every batch but the last (delay_seconds is 0.5 in both
\* callers).
WriteUpdateBatch(update_ok) ==
  /\ pc = "dash_write"
  /\ Fail(<<update_ok>>)
  /\ LET nb   == num_batches(all_updates, UpdateBatchSize)
         call == [op |-> "batch_update", lo |-> batch_lo(update_i, UpdateBatchSize),
                  hi |-> batch_hi(update_i, UpdateBatchSize, all_updates),
                  ok |-> update_ok]
         sleeps == update_ok /\ update_i < nb - 1
     IN  /\ log' = log \o <<call>> \o
                     (IF sleeps THEN <<[op |-> "sleep", lo |-> 0, hi |-> 0, ok |-> TRUE]>>
                      ELSE << >>)
         /\ IF ~update_ok
            THEN /\ ReturnFromDashboard(TRUE)
                 /\ sink_errors' = sink_errors \cup {"dashboard"}
                 /\ UNCHANGED update_i
            ELSE /\ update_i' = update_i + 1
                 /\ pc' = IF update_i + 1 < nb THEN "dash_write" ELSE "dash_format"
                 /\ UNCHANGED <<result, sink_errors>>
  /\ UNCHANGED <<csv_file, sink_vars, now, entry, transactions, existing_transaction_ids,
                 iwb_vars, i, new_rows, all_updates, batch_updates, format_i, derived,
                 runs, appended, prev, calls>>

\* Lines 434-439 (batch_updates False), one update.  update_ok:
\* dashboard_worksheet.update returned.  The call stands in a try of its own:
\* a failure is printed and the loop goes on.
WriteUpdate(update_ok) ==
  /\ pc = "dash_update"
  /\ Fail(<<update_ok>>)
  /\ log' = Append(log, [op |-> "update", lo |-> update_i + 1, hi |-> update_i + 1,
                         ok |-> update_ok])
  /\ sink_errors' = sink_errors \cup (IF update_ok THEN {} ELSE {"dashboard"})
  /\ update_i' = update_i + 1
  /\ pc' = IF update_i + 1 < all_updates THEN "dash_update" ELSE "dash_format"
  /\ UNCHANGED <<csv_file, sink_vars, now, entry, transactions, existing_transaction_ids,
                 iwb_vars, i, new_rows, result, all_updates, batch_updates, format_i,
                 derived, runs, appended, prev, calls>>

\* FormatDashboard with the format call outside any try: a format that
\* raises ends update_dashboard.
FormatDashboardUnguarded(format_ok) ==
  /\ pc = "dash_format"
  /\ Fail(<<format_ok>>)
  /\ log' = Append(log, [op |-> "format", lo |-> format_i + 1, hi |-> format_i + 1,
                         ok |-> format_ok])
  /\ sink_errors' = sink_errors \cup (IF format_ok THEN {} ELSE {"format"})
  /\ format_i' = format_i + 1
  /\ IF ~format_ok THEN ReturnFromDashboard(TRUE)
     ELSE IF format_i + 1 < Len(all_formats) THEN UNCHANGED <<pc, result>>
     ELSE ReturnFromDashboard(FALSE)
  /\ UNCHANGED <<csv_file, sink_vars, now, entry, transactions, existing_transaction_ids,
                 iwb_vars, i, new_rows, all_updates, update_i, batch_updates, derived,
                 runs, appended, prev, calls>>

\* Lines 425-431 (batch_updates True) and 442-447 (False), one format, and
\* line 449 after the last.  format_ok: dashboard_worksheet.format returned.
\* Every format stands in a try of its own: a failure is printed and the loop
\* goes on.
FormatDashboard(format_ok) ==
  /\ pc = "dash_format"
  /\ Fail(<<format_ok>>)
  /\ log' = Append(log, [op |-> "format", lo |-> format_i + 1, hi |-> format_i + 1,
                         ok |-> format_ok])
  /\ sink_errors' = sink_errors \cup (IF format_ok THEN {} ELSE {"format"})
  /\ format_i' = format_i + 1
  /\ IF format_i + 1 < Len(all_formats)
     THEN UNCHANGED <<pc, result>>
     ELSE ReturnFromDashboard(FALSE)
  /\ UNCHANGED <<csv_file, sink_vars, now, entry, transactions, existing_transaction_ids,
                 iwb_vars, i, new_rows, all_updates, update_i, batch_updates, derived,
                 runs, appended, prev, calls>>

\* update_dashboard as its caller sees it: it returns or it raises, having
\* changed nothing but the Dashboard worksheet.  sink_raised tells a sink call
\* (get_all_values, clear, batch_update) from a cell pandas rejects.
UpdateDashboard(raised, sink_raised) ==
  /\ pc = "dash_start"
  /\ sink_raised => raised
  /\ Fail(<<~raised>>)
  /\ ReturnFromDashboard(raised)
  /\ sink_errors' = sink_errors \cup (IF sink_raised THEN {"dashboard"} ELSE {})
  /\ UNCHANGED <<csv_file, sink_vars, now, entry, transactions, existing_transaction_ids,
                 iwb_vars, i, new_rows, dash_vars, log, runs, appended, prev, calls>>

\* ---------------------------------------------------------- specifications

BatchSizes == 1..MaxBatch

\* Imports of one CSV file, again and again; update_dashboard taken as one step.
Next ==
  \/ \E size \in BatchSizes, files_ok \in BOOLEAN,
        open \in {"opened", "created", "raised"}, ids_ok \in BOOLEAN :
       StartImportWithBatching(size, files_ok, open, ids_ok)
  \/ \E categories_ok \in BOOLEAN : PrepareRow(categories_ok)
  \/ \E append_ok \in BOOLEAN : WriteBatch(append_ok)
  \/ FinishImportWithBatching
  \/ \E file_ok \in BOOLEAN, ids_ok \in BOOLEAN :
       StartImportCsvTransactions(file_ok, ids_ok)
  \/ \E categories_ok \in BOOLEAN, append_ok \in BOOLEAN :
       ImportRecord(categories_ok, append_ok)
  \/ FinishImportCsvTransactions
  \/ \E raised \in BOOLEAN, sink_raised \in BOOLEAN :
       UpdateDashboard(raised, sink_raised)

Spec == Init /\ [][Next]_vars

\* update_dashboard step by step, called by an import that added a row or on
\* its own, on a sheet with or without transactions.
DashboardInit ==
  /\ csv_file = << >>
  /\ transactions_worksheet \in
       { << >>, <<[Amount |-> <<"-", "4", "5", ".", "6", "7">>, Category |-> "Buy", TransactionID |-> <<"t", "x", "_", "1">>]>> }
  /\ categories_worksheet = SeededCategoryRows
  /\ now = 1
  /\ pc = "dash_start"
  /\ entry \in {"iwb", "fit", "direct"}
  /\ entry # "direct" => transactions_worksheet # << >>
  /\ transactions = << >>
  /\ batch_size = 1
  /\ existing_transaction_ids = << >>
  /\ new_transactions = << >>
  /\ i = 0
  /\ rows_to_add = << >>
  /\ total_imported = IF entry = "iwb" THEN 1 ELSE 0
  /\ new_rows = IF entry = "fit" THEN 1 ELSE 0
  /\ result = NoResult
  /\ all_updates = 0
  /\ update_i = 0
  /\ batch_updates = TRUE
  /\ format_i = 0
  /\ derived = NoTables
  /\ log = << >>
  /\ runs = 1
  /\ appended = Len(transactions_worksheet)
  /\ sink_errors = {}
  /\ prev = [imported |-> FALSE]
  /\ faults = 0
  /\ calls = << >>

DashboardNext ==
  \/ \E batch \in BOOLEAN,
        outcome \in {"ok", "read_raised", "frame_raised", "clear_raised"},
        shape \in DashboardShapes :
       StartUpdateDashboard(batch, outcome, shape)
  \/ \E update_ok \in BOOLEAN : WriteUpdateBatch(update_ok)
  \/ \E update_ok \in BOOLEAN : WriteUpdate(update_ok)
  \/ \E format_ok \in BOOLEAN : FormatDashboard(format_ok)

SpecDashboard == DashboardInit /\ [][DashboardNext]_vars

\* ------------------------------------------------ the classifier on its own

\* Most rows of a Categories worksheet.
MaxRules == 2

\* Rows of a Categories worksheet: keywords in either order inside a cell,
\* capitals and blanks around keywords, an empty keyword cell, a row of one
\* cell, category cells inside and outside the enumeration.
RuleRows ==
  { <<"Buy", <<"p", "u", "r", "c", "h", "a", "s", "e">>>>,
    <<"Sell", <<"s", "e", "l", "l", ",", " ", "p", "u", "r", "c", "h", "a", "s", "e">>>>,
    <<"Sell", <<"p", "u", "r", "c", "h", "a", "s", "e", ",", " ", "s", "e", "l", "l">>>>,
    <<"Income", <<" ", "S", "E", "L", "L", " ">>>>,
    <<"Groceries", <<"C", "o", "f", "f", "e", "e", " ", ",", "t", "e", "a">>>>,
    <<"", <<"P", "a", "y", "r", "o", "l", "l">>>>,
    <<"Other", << >> >>,
    <<"Fee">> }

RuleTables == SeqsUpTo(RuleRows, MaxRules) \cup {SeededCategoryRows}

ClassifierDescriptions ==
  { <<"P", "u", "r", "c", "h", "a", "s", "e", " ", "o", "f", " ", "A", "p", "p", "l", "e", " ", "(", "A", "A", "P", "L", ")">>,
    <<"S", "e", "l", "l", " ", "a", "f", "t", "e", "r", " ", "p", "u", "r", "c", "h", "a", "s", "e">>,
    <<"P", "u", "r", "c", "h", "a", "s", "e", ",", " ", "t", "h", "e", "n", " ", "S", "E", "L", "L">>,
    <<"P", "a", "y", "r", "o", "l", "l", " ", "d", "e", "p", "o", "s", "i", "t">>,
    <<"D", "i", "v", "i", "d", "e", "n", "d", " ", "i", "n", "c", "o", "m", "e">>,
    <<"C", "o", "f", "f", "e", "e">>,
    << >> }

ClassifierMerchants == { << >>, <<"R", "e", "s", "e", "a", "r", "c", "h", " ", "C", "o">> }

\* One transaction, classified again and again against one Categories
\* worksheet; every read of the worksheet may fail.
ClassifierInit ==
  /\ csv_file \in { <<[Description |-> d, Merchant |-> m]>> :
                      d \in ClassifierDescriptions, m \in ClassifierMerchants }
  /\ transactions_worksheet = << >>
  /\ categories_worksheet \in RuleTables
  /\ now = 0
  /\ pc = "idle"
  /\ entry = "none"
  /\ transactions = << >>
  /\ batch_size = 1
  /\ existing_transaction_ids = << >>
  /\ new_transactions = << >>
  /\ i = 0
  /\ rows_to_add = << >>
  /\ total_imported = 0
  /\ new_rows = 0
  /\ result = NoResult
  /\ all_updates = 0
  /\ update_i = 0
  /\ batch_updates = TRUE
  /\ format_i = 0
  /\ derived = NoTables
  /\ log = << >>
  /\ runs = 0
  /\ appended = 0
  /\ sink_errors = {}
  /\ prev = [imported |-> FALSE]
  /\ faults = 0
  /\ calls = << >>

\* ClassifyRecord with a classifier that remembers how the read of the
\* Categories worksheet went in the call before and acts on that.
ClassifyRecordStaleRead(categories_ok) ==
  /\ pc = "idle"
  /\ LET t == csv_file[1]
         acted_on == IF calls = << >> THEN categories_ok ELSE calls[Len(calls)].read_ok
         made == [read_ok |-> categories_ok,
                  category |-> categorize_transaction(t.Description, t.Merchant,
                                 acted_on, categories_worksheet)]
     IN  calls' = Append(IF Len(calls) = 2 THEN Tail(calls) ELSE calls, made)
  /\ UNCHANGED <<csv_file, sink_vars, now, pc, entry, transactions,
                 existing_transaction_ids, iwb_vars, i, new_rows, result,
                 dash_vars, log, runs, appended, sink_errors, prev, faults>>

\* categorize_transaction(description, merchant) as lines 103 and 160 call it;
\* the last two calls are kept.
ClassifyRecord(categories_ok) ==
  /\ pc = "idle"
  /\ LET t == csv_file[1]
         made == [read_ok |-> categories_ok,
                  category |-> categorize_transaction(t.Description, t.Merchant,
                                 categories_ok, categories_worksheet)]
     IN  calls' = Append(IF Len(calls) = 2 THEN Tail(calls) ELSE calls, made)
  /\ UNCHANGED <<csv_file, sink_vars, now, pc, entry, transactions,
                 existing_transaction_ids, iwb_vars, i, new_rows, result,
                 dash_vars, log, runs, appended, sink_errors, prev, faults>>

ClassifierNext == \E categories_ok \in BOOLEAN : ClassifyRecord(categories_ok)

SpecClassifier == ClassifierInit /\ [][ClassifierNext]_vars

\* ------------------------------------------------------ derived columns

\* The value of an optional result that is None.
None == [is_none |-> TRUE, value |-> << >>]
Some(v) == [is_none |-> FALSE, value |-> v]

\* The characters of the class [A-Z\.] of the stock-symbol pattern.
SymbolChars == DOMAIN UpperToLower \cup {"."}

\* re.search(r'\(([A-Z]+)\)', description): the pattern without the dot.
extract_stock_symbol_letters(description) ==
  LET closes(p) == {q \in (p + 2)..Len(description) :
                      /\ description[q] = ")"
                      /\ \A k \in (p + 1)..(q - 1) : description[k] \in DOMAIN UpperToLower}
      starts    == {p \in 1..Len(description) : description[p] = "(" /\ closes(p) # {}}
  IN  IF starts = {} THEN None
      ELSE LET p == CHOOSE p \in starts : \A r \in starts : p <= r
               q == CHOOSE q \in closes(p) : TRUE
           IN  Some(SubSeq(description, p + 1, q - 1))

\* re.search(r'\(([A-Z\.]+)\)', description) and group(1) of the match, or
\* None: the leftmost "(" that is followed by one or more characters of the
\* class and then ")".
extract_stock_symbol(description) ==
  LET closes(p) == {q \in (p + 2)..Len(description) :
                      /\ description[q] = ")"
                      /\ \A k \in (p + 1)..(q - 1) : description[k] \in SymbolChars}
      starts    == {p \in 1..Len(description) : description[p] = "(" /\ closes(p) # {}}
  IN  IF starts = {} THEN None
      ELSE LET p == CHOOSE p \in starts : \A r \in starts : p <= r
               q == CHOOSE q \in closes(p) : TRUE
           IN  Some(SubSeq(description, p + 1, q - 1))

\* any(word in desc for word in words)
any_in(words, desc) == \E k \in 1..Len(words) : is_in(words[k], desc)

PurchaseWords ==
  << <<"p", "u", "r", "c", "h", "a", "s", "e">>,
     <<"a", "c", "c", "u", "m", "u", "l", "a", "t", "e">>,
     <<"l", "o", "n", "g", " ", "p", "o", "s", "i", "t", "i", "o", "n">>,
     <<"a", "c", "q", "u", "i", "s", "i", "t", "i", "o", "n">>,
     <<"i", "n", "v", "e", "s", "t", "m", "e", "n", "t", " ", "i", "n">> >>

SaleWords ==
  << <<"s", "e", "l", "l">>,
     <<"l", "i", "q", "u", "i", "d", "a", "t", "e">>,
     <<"c", "l", "o", "s", "e", " ", "p", "o", "s", "i", "t", "i", "o", "n">>,
     <<"d", "i", "v", "e", "s", "t", "m", "e", "n", "t">>,
     <<"p", "r", "o", "f", "i", "t", "-", "t", "a", "k", "i", "n", "g">> >>

FeeWords ==
  << <<"f", "e", "e">>,
     <<"e", "x", "p", "e", "n", "s", "e">>,
     <<"c", "o", "m", "m", "i", "s", "s", "i", "o", "n">>,
     <<"r", "e", "s", "e", "a", "r", "c", "h">>,
     <<"a", "u", "d", "i", "t">> >>

InitialFundCapital ==
  <<"i", "n", "i", "t", "i", "a", "l", " ", "f", "u", "n", "d", " ", "c", "a", "p", "i", "t", "a", "l">>

\* identify_transaction_type with the dividend test moved ahead of the sign
\* tests.
identify_transaction_type_dividend_first(description, amount) ==
  LET desc == lower(description)
  IN  IF is_in(InitialFundCapital, desc) THEN "Initial Capital"
      ELSE IF is_in(<<"d", "i", "v", "i", "d", "e", "n", "d">>, desc) THEN "Dividend"
      ELSE IF amount < 0 /\ any_in(PurchaseWords, desc) THEN "Buy"
      ELSE IF amount > 0 /\ any_in(SaleWords, desc) THEN "Sell"
      ELSE IF amount < 0 /\ any_in(FeeWords, desc) THEN "Fee"
      ELSE "Other"

\* identify_transaction_type(row) on row['Description'] and the number
\* float(row['Amount']).
identify_transaction_type(description, amount) ==
  LET desc == lower(description)
  IN  IF is_in(InitialFundCapital, desc) THEN "Initial Capital"
      ELSE IF amount < 0 /\ any_in(PurchaseWords, desc) THEN "Buy"
      ELSE IF amount > 0 /\ any_in(SaleWords, desc) THEN "Sell"
      ELSE IF is_in(<<"d", "i", "v", "i", "d", "e", "n", "d">>, desc) THEN "Dividend"
      ELSE IF amount < 0 /\ any_in(FeeWords, desc) THEN "Fee"
      ELSE "Other"

\* ------------------------------------------------------ aggregation

\* Data rows of a Transactions worksheet as the imports leave them: the date
\* as YYYY-MM-DD, the amount as the numeral of a number, the category the
\* classifier gave.
LedgerRows ==
  { [Date |-> <<"2", "0", "2", "5", "-", "0", "2", "-", "0", "3">>, Description |-> <<"P", "u", "r", "c", "h", "a", "s", "e", " ", "(", "A", "A", "P", "L", ")">>,
     Amount |-> <<"-", "5">>, Category |-> "Buy", Account |-> <<"F", "u", "n", "d", " ", "A">>],
    [Date |-> <<"2", "0", "2", "5", "-", "1", "0", "-", "0", "7">>, Description |-> <<"S", "e", "l", "l", " ", "(", "A", "A", "P", "L", ")">>,
     Amount |-> <<"3">>, Category |-> "Sell", Account |-> <<"F", "u", "n", "d", " ", "A">>],
    [Date |-> <<"2", "0", "2", "4", "-", "1", "2", "-", "2", "0">>, Description |-> <<"D", "i", "v", "i", "d", "e", "n", "d", " ", "(", "M", "S", "F", "T", ")">>,
     Amount |-> <<"1">>, Category |-> "Dividend", Account |-> <<"F", "u", "n", "d", " ", "B">>],
    [Date |-> <<"2", "0", "2", "5", "-", "0", "2", "-", "1", "1">>, Description |-> <<"A", "u", "d", "i", "t", " ", "f", "e", "e">>,
     Amount |-> <<"-", "1">>, Category |-> "Fee", Account |-> <<"F", "u", "n", "d", " ", "B">>],
    [Date |-> <<"2", "0", "2", "4", "-", "1", "2", "-", "0", "2">>, Description |-> <<"I", "n", "i", "t", "i", "a", "l", " ", "f", "u", "n", "d", " ", "c", "a", "p", "i", "t", "a", "l">>,
     Amount |-> <<"9">>, Category |-> "Capital", Account |-> <<"F", "u", "n", "d", " ", "A">>],
    [Date |-> <<"2", "0", "2", "5", "-", "1", "0", "-", "1", "5">>, Description |-> <<"P", "u", "r", "c", "h", "a", "s", "e", " ", "(", "M", "S", "F", "T", ")">>,
     Amount |-> <<"-", "2">>, Category |-> "Buy", Account |-> <<"F", "u", "n", "d", " ", "B">>] }

\* Most rows of the Transactions worksheet the tables are computed from.
MaxLedger == 3

\* The DataFrame of update_dashboard: Amount as a number, Date parsed, and
\* the derived columns Month and Stock.
data_frame(rows) ==
  [k \in 1..Len(rows) |->
     [Date |-> strptime(rows[k].Date),
      Description |-> rows[k].Description,
      Amount |-> to_float(rows[k].Amount),
      Category |-> rows[k].Category,
      Account |-> rows[k].Account,
      Month |-> strftime_Y_m(strptime(rows[k].Date)),
      Stock |-> extract_stock_symbol(rows[k].Description),
      TransactionType |-> identify_transaction_type(rows[k].Description,
                                                    to_float(rows[k].Amount))]]

\* Series.sum() over the rows of the index set S; 0 for no rows.
RECURSIVE sum_amount(_, _)
sum_amount(df, S) ==
  IF S = {} THEN 0
  ELSE LET k == CHOOSE k \in S : TRUE
       IN  df[k].Amount + sum_amount(df, S \ {k})

\* df[df[column] == value]['Amount'].sum()
total_of(df, column, value) ==
  sum_amount(df, {k \in 1..Len(df) : df[k][column] = value})

\* sorted() of a set of strings, as groupby orders its group keys.
RECURSIVE sorted_texts(_)
sorted_texts(S) ==
  IF S = {} THEN << >>
  ELSE LET least == CHOOSE a \in S : \A b \in S \ {a} : text_less(a, b)
       IN  <<least>> \o sorted_texts(S \ {least})

RECURSIVE sorted_names(_)
sorted_names(S) ==
  IF S = {} THEN << >>
  ELSE LET least == CHOOSE a \in S : \A b \in S \ {a} : name_less(a, b)
       IN  <<least>> \o sorted_names(S \ {least})

\* df.loc[S].groupby(column)['Amount'].sum(): a series of (key, sum) in the
\* sorted order of the keys.
groupby_sum(df, S, column) ==
  LET keys == sorted_texts({df[k][column] : k \in S})
  IN  [n \in 1..Len(keys) |->
         <<keys[n], sum_amount(df, {k \in S : df[k][column] = keys[n]})>>]

\* Series.sort_values(ascending=...): by value, equal values in the order
\* they had.
RECURSIVE sort_values(_, _)
sort_values(series, ascending) ==
  IF series = << >> THEN << >>
  ELSE LET first(k) == \A j \in 1..Len(series) :
                         /\ (IF ascending THEN series[k][2] <= series[j][2]
                                          ELSE series[k][2] >= series[j][2])
                         /\ (series[j][2] = series[k][2] => k <= j)
           k == CHOOSE k \in 1..Len(series) : first(k)
       IN  <<series[k]>> \o
           sort_values([n \in 1..(Len(series) - 1) |->
                          IF n < k THEN series[n] ELSE series[n + 1]], ascending)

\* df.loc[S].groupby('Stock')['Amount'].sum(): groupby leaves out the rows
\* whose key is None.
groupby_stock_sum(df, S) ==
  LET held == {k \in S : ~df[k].Stock.is_none}
      keys == sorted_texts({df[k].Stock.value : k \in held})
  IN  [n \in 1..Len(keys) |->
         <<keys[n], sum_amount(df, {k \in held : df[k].Stock.value = keys[n]})>>]

\* Series.cumsum() leaving every value as it is.
cumsum_skipped(series) == series

\* Series.cumsum()
RECURSIVE cumsum(_)
cumsum(series) ==
  IF series = << >> THEN << >>
  ELSE LET before == cumsum(SubSeq(series, 1, Len(series) - 1))
           last   == series[Len(series)]
       IN  Append(before, <<last[1], last[2] + (IF before = << >> THEN 0
                                                 ELSE before[Len(before)][2])>>)

\* Series.abs() leaving every value with its sign.
series_abs_skipped(series) == series

\* Series.abs()
series_abs(series) == [n \in 1..Len(series) |-> <<series[n][1], abs(series[n][2])>>]

\* The grouping step of df.pivot_table(index='Month', columns=column,
\* values='Amount', aggfunc='sum'): one row per month, one column per value
\* of `column`, both in sorted order, and a cell for every (month, value)
\* pair that some row has.  A cell no row has is NaN: here, no cell.
pivot_sum(df, column) ==
  LET months == {df[k].Month : k \in 1..Len(df)}
      names  == {df[k][column] : k \in 1..Len(df)}
  IN  [index   |-> sorted_texts(months),
       columns |-> sorted_names(names),
       cells   |-> [m \in months |->
                      [c \in {df[k][column] : k \in {j \in 1..Len(df) : df[j].Month = m}} |->
                         sum_amount(df, {k \in 1..Len(df) :
                                           df[k].Month = m /\ df[k][column] = c})]]]

\* DataFrame.fillna(0) with the NaN cells left as they are.
fillna_skipped(table) == table

\* DataFrame.fillna(0), which pivot_table(fill_value=0) applies as well:
\* every (row, column) cell that is NaN becomes 0.
fillna(table) ==
  [table EXCEPT !.cells =
     [m \in DOMAIN table.cells |->
        [c \in {table.columns[n] : n \in 1..Len(table.columns)} |->
           IF c \in DOMAIN table.cells[m] THEN table.cells[m][c] ELSE 0]]]

\* monthly_activity[column] = monthly_activity[column].abs() * -1, when the
\* table has the column.
negative_abs(table, column) ==
  [table EXCEPT !.cells =
     [m \in DOMAIN table.cells |->
        [c \in DOMAIN table.cells[m] |->
           IF c = column THEN 0 - abs(table.cells[m][c]) ELSE table.cells[m][c]]]]

\* df.sort_values('Date'): rows in the order of their dates, equal dates in
\* the order they had.
RECURSIVE sort_by_date(_)
sort_by_date(df) ==
  IF df = << >> THEN << >>
  ELSE LET day(k)   == <<df[k].Date.year, df[k].Date.month, df[k].Date.day>>
           le(a, b) == \/ a[1] < b[1]
                       \/ a[1] = b[1] /\ a[2] < b[2]
                       \/ a[1] = b[1] /\ a[2] = b[2] /\ a[3] <= b[3]
           k == CHOOSE k \in 1..Len(df) :
                  \A j \in 1..Len(df) : le(day(k), day(j)) /\ (day(j) = day(k) => k <= j)
       IN  <<df[k]>> \o sort_by_date([n \in 1..(Len(df) - 1) |->
                                        IF n < k THEN df[n] ELSE df[n + 1]])

\* The rows update_dashboard places its sections at, with every section
\* starting right below the one before it.
layout_offsets_packed(shape) ==
  LET row_offset   == shape.funds + 11
      stock_offset == shape.months + 5
      fund_offset  == stock_offset + shape.held + 1
  IN  [row_offset |-> row_offset, stock_offset |-> stock_offset,
       fund_offset |-> fund_offset, div_offset |-> fund_offset + shape.funds + 1]

\* The rows update_dashboard places its sections at: row_offset (line 320),
\* stock_offset (line 357), fund_offset (line 370), div_offset (line 386).
\* len(fund_rows) is len(fund_allocation), len(stock_rows) the number of
\* stocks with a negative sum.
layout_offsets(shape) ==
  LET row_offset   == shape.funds + 14
      stock_offset == shape.months + 8
      fund_offset  == stock_offset + shape.held + 4
  IN  [row_offset |-> row_offset, stock_offset |-> stock_offset,
       fund_offset |-> fund_offset, div_offset |-> fund_offset + shape.funds + 4]

\* A queued write (cell, value) as the cells it fills: a single value fills
\* its cell, a list of rows fills a block whose top left corner is the cell.
\* Columns are numbered from A = 1; section names the part of the dashboard
\* the write belongs to.
cell_update(section, column, row) ==
  [section |-> section, left |-> column, right |-> column, top |-> row, bottom |-> row]

rows_update(section, column, row, height, width) ==
  [section |-> section, left |-> column, right |-> column + width - 1,
   top |-> row, bottom |-> row + height - 1]

\* The A and B cells of n (name, amount) pairs written from row start on
\* (lines 312-314 and 324-326).
pair_updates(section, start, n) ==
  [k \in 1..(2 * n) |-> cell_update(section, IF k % 2 = 1 THEN 1 ELSE 2,
                                    start + ((k - 1) \div 2))]

\* Lines 269-396: all_updates, in the order the writes are queued.  Besides
\* the counts of DashboardShapes, shape.categories is the number of category
\* columns of the monthly table.
dashboard_updates(shape) ==
  LET at == layout_offsets(shape)
      summary == [k \in 1..12 |-> cell_update("summary", IF k % 2 = 1 THEN 1 ELSE 2,
                                              4 + ((k - 1) \div 2))]
  IN  <<cell_update("title", 1, 1)>>
      \o <<cell_update("summary", 1, 3)>> \o summary
      \o <<cell_update("fund_allocation", 1, 11)>>
      \o pair_updates("fund_allocation", 12, shape.funds)
      \o <<cell_update("stock_holdings", 1, at.row_offset)>>
      \o pair_updates("stock_holdings", at.row_offset + 1, shape.stocks)
      \o <<cell_update("chart_data", 4, 3)>>
      \o <<cell_update("monthly_activity", 4, 4),
           rows_update("monthly_activity", 4, 5, 1, 1 + shape.categories)>>
      \o (IF shape.months > 0
          THEN <<rows_update("monthly_activity", 4, 6, shape.months, 1 + shape.categories)>>
          ELSE << >>)
      \o <<cell_update("stock_allocation", 4, at.stock_offset),
           rows_update("stock_allocation", 4, at.stock_offset + 1, 1, 2)>>
      \o (IF shape.held > 0
          THEN <<rows_update("stock_allocation", 4, at.stock_offset + 2, shape.held, 2)>>
          ELSE << >>)
      \o <<cell_update("fund_performance", 4, at.fund_offset),
           rows_update("fund_performance", 4, at.fund_offset + 1, 1, 2)>>
      \o (IF shape.funds > 0
          THEN <<rows_update("fund_performance", 4, at.fund_offset + 2, shape.funds, 2)>>
          ELSE << >>)
      \o (IF shape.dividend
          THEN <<cell_update("dividend_income", 4, at.div_offset),
                 rows_update("dividend_income", 4, at.div_offset + 1, 1, 2)>>
               \o (IF shape.dividend_stocks > 0
                   THEN <<rows_update("dividend_income", 4, at.div_offset + 2,
                                      shape.dividend_stocks, 2)>>
                   ELSE << >>)
          ELSE << >>)

\* Lines 275-396 of update_dashboard: the values the dashboard is given.
\* B4..B9 are the summary cells; fund_cells and stock_cells the A/B cell
\* pairs of Fund Allocation and Stock Holdings; all_updates the cells of
\* the queued writes; the rest the chart data.
dashboard_tables(df) ==
  LET rows            == 1..Len(df)
      total_buy       == total_of(df, "Category", "Buy")
      total_sell      == total_of(df, "Category", "Sell")
      total_dividend  == total_of(df, "Category", "Dividend")
      total_fee       == total_of(df, "Category", "Fee")
      total_capital   == total_of(df, "Category", "Capital")
      portfolio_value == total_capital + total_buy + total_sell + total_dividend + total_fee
      fund_allocation == sort_values(groupby_sum(df, rows, "Account"), TRUE)
      stock_holdings  == sort_values(groupby_stock_sum(df, rows), TRUE)
      held            == SelectSeq(stock_holdings, LAMBDA e : e[2] < 0)
      dividend_data   == {k \in rows : df[k].Category = "Dividend"}
      monthly         == fillna(pivot_sum(df, "Category"))
      div_rows        == IF dividend_data = {} THEN << >>
                         ELSE sort_values(groupby_stock_sum(df, dividend_data), FALSE)
      shape           == [funds |-> Len(fund_allocation), stocks |-> Len(stock_holdings),
                          months |-> Len(monthly.index), categories |-> Len(monthly.columns),
                          held |-> Len(held), dividend |-> dividend_data # {},
                          dividend_stocks |-> Len(div_rows)]
  IN  [kind |-> "dashboard",
       all_updates |-> dashboard_updates(shape),
       B4 |-> format_dollars(total_capital),
       B5 |-> format_dollars(abs(total_buy)),
       B6 |-> format_dollars(total_sell),
       B7 |-> format_dollars(total_dividend),
       B8 |-> format_dollars(abs(total_fee)),
       B9 |-> format_dollars(portfolio_value),
       fund_cells |-> [n \in 1..Len(fund_allocation) |->
                         <<fund_allocation[n][1], format_dollars(fund_allocation[n][2])>>],
       stock_cells |-> [n \in 1..Len(stock_holdings) |->
                          <<stock_holdings[n][1], format_dollars(stock_holdings[n][2])>>],
       monthly_by_category |-> monthly,
       stock_rows |-> series_abs(held),
       fund_rows |-> fund_allocation,
       div_rows |-> div_rows]

\* Lines 136-179 of create_investment_visualizations: the tables behind the
\* charts of monthly activity and of cumulative portfolio growth.
chart_tables(df) ==
  LET df_sorted       == sort_by_date(df)
      monthly_balance == groupby_sum(df_sorted, 1..Len(df_sorted), "Month")
  IN  [kind |-> "charts",
       monthly_activity |->
         negative_abs(negative_abs(fillna(pivot_sum(df, "TransactionType")), "Buy"), "Fee"),
       cumulative_balance |-> cumsum(monthly_balance)]

\* The Transactions worksheet holds up to MaxLedger rows, in any order and
\* with repeats; nothing has run.
AggregationInit ==
  /\ csv_file = << >>
  /\ transactions_worksheet \in SeqsUpTo(LedgerRows, MaxLedger)
  /\ categories_worksheet = SeededCategoryRows
  /\ now = 0
  /\ pc = "idle"
  /\ entry = "none"
  /\ transactions = << >>
  /\ batch_size = 1
  /\ existing_transaction_ids = << >>
  /\ new_transactions = << >>
  /\ i = 0
  /\ rows_to_add = << >>
  /\ total_imported = 0
  /\ new_rows = 0
  /\ result = NoResult
  /\ all_updates = 0
  /\ update_i = 0
  /\ batch_updates = TRUE
  /\ format_i = 0
  /\ derived = NoTables
  /\ log = << >>
  /\ runs = 0
  /\ appended = 0
  /\ sink_errors = {}
  /\ prev = [imported |-> FALSE]
  /\ faults = 0
  /\ calls = << >>

\* update_dashboard up to its writes: nothing for a worksheet without data
\* rows (lines 232-234), else the tables of lines 239-396.
ComputeDashboardTables ==
  /\ pc = "idle"
  /\ runs = 0
  /\ runs' = 1
  /\ entry' = "direct"
  /\ result' = ReturnNone
  /\ derived' = IF transactions_worksheet = << >> THEN NoTables
                ELSE dashboard_tables(data_frame(transactions_worksheet))
  /\ UNCHANGED <<csv_file, sink_vars, now, pc, transactions, existing_transaction_ids,
                 iwb_vars, i, new_rows, all_updates, update_i, batch_updates, format_i,
                 log, appended, sink_errors, prev, faults, calls>>

\* create_investment_visualizations: False for a worksheet without data
\* rows (lines 66-68) and when a chart raises (lines 305-309), else the
\* tables of the charts and True.
CreateInvestmentVisualizations(charts_ok) ==
  /\ pc = "idle"
  /\ runs = 0
  /\ Fail(<<charts_ok>>)
  /\ runs' = 1
  /\ entry' = "charts"
  /\ IF transactions_worksheet = << >> \/ ~charts_ok
     THEN result' = ReturnFalse /\ derived' = NoTables
     ELSE /\ result' = ReturnTrue
          /\ derived' = chart_tables(data_frame(transactions_worksheet))
  /\ UNCHANGED <<csv_file, sink_vars, now, pc, transactions, existing_transaction_ids,
                 iwb_vars, i, new_rows, all_updates, update_i, batch_updates, format_i,
                 log, appended, sink_errors, prev, calls>>

AggregationNext ==
  \/ ComputeDashboardTables
  \/ \E charts_ok \in BOOLEAN : CreateInvestmentVisualizations(charts_ok)

SpecAggregation == AggregationInit /\ [][AggregationNext]_vars

\* ------------------------------------------- the row functions on their own

\* Descriptions are up to MaxWords of these pieces joined by blanks; amounts
\* are the integers from -MaxAmount to MaxAmount.
DescriptionWords ==
  { <<"P", "u", "r", "c", "h", "a", "s", "e">>,
    <<"L", "o", "n", "g", " ", "p", "o", "s", "i", "t", "i", "o", "n">>,
    <<"S", "e", "l", "l">>,
    <<"P", "r", "o", "f", "i", "t", "-", "t", "a", "k", "i", "n", "g">>,
    <<"I", "n", "i", "t", "i", "a", "l", " ", "f", "u", "n", "d", " ", "c", "a", "p", "i", "t", "a", "l">>,
    <<"D", "i", "v", "i", "d", "e", "n", "d">>,
    <<"f", "e", "e">>,
    <<"(", "A", "A", "P", "L", ")">>,
    <<"(", "B", "R", "K", ".", "B", ")">>,
    <<"(", "a", "a", "p", "l", ")">>,
    <<"(">>,
    <<")">> }

MaxWords == 2
MaxAmount == 1

VisualizerDescriptions == {join(ws, <<" ">>) : ws \in SeqsUpTo(DescriptionWords, MaxWords)}

VisualizerInit ==
  /\ csv_file = << >>
  /\ transactions_worksheet = << >>
  /\ categories_worksheet = SeededCategoryRows
  /\ now = 0
  /\ pc = "idle"
  /\ entry = "none"
  /\ transactions = << >>
  /\ batch_size = 1
  /\ existing_transaction_ids = << >>
  /\ new_transactions = << >>
  /\ i = 0
  /\ rows_to_add = << >>
  /\ total_imported = 0
  /\ new_rows = 0
  /\ result = NoResult
  /\ all_updates = 0
  /\ update_i = 0
  /\ log = << >>
  /\ runs = 0
  /\ appended = 0
  /\ sink_errors = {}
  /\ prev = [imported |-> FALSE]
  /\ faults = 0
  /\ calls = << >>
  /\ batch_updates = TRUE
  /\ format_i = 0
  /\ derived = NoTables

\* df.apply(identify_transaction_type, axis=1) on one row; a behaviour holds
\* one call.
IdentifyTransactionType(description, amount) ==
  /\ calls = << >>
  /\ calls' = << [fn |-> "identify_transaction_type", description |-> description,
                  amount |-> amount, type |-> identify_transaction_type(description, amount),
                  stock |-> None] >>
  /\ UNCHANGED <<csv_file, sink_vars, now, pc, entry, transactions,
                 existing_transaction_ids, iwb_vars, i, new_rows, result,
                 dash_vars, log, runs, appended, sink_errors, prev, faults>>

\* df['Description'].apply(extract_stock_symbol) on one row.
ExtractStockSymbol(description) ==
  /\ calls = << >>
  /\ calls' = << [fn |-> "extract_stock_symbol", description |-> description,
                  amount |-> 0, type |-> "", stock |-> extract_stock_symbol(description)] >>
  /\ UNCHANGED <<csv_file, sink_vars, now, pc, entry, transactions,
                 existing_transaction_ids, iwb_vars, i, new_rows, result,
                 dash_vars, log, runs, appended, sink_errors, prev, faults>>

VisualizerNext ==
  \E description \in VisualizerDescriptions :
    \/ \E amount \in (-MaxAmount)..MaxAmount : IdentifyTransactionType(description, amount)
    \/ ExtractStockSymbol(description)

SpecVisualizer == VisualizerInit /\ [][VisualizerNext]_vars

\* --------------------------------------------- imports of dated records

\* CSV records with a Date column and with amounts that parse: a date
\* written without its zeros, which strptime accepts, and a date in another
\* format.
DatedRecords ==
  { [TransactionID |-> <<"t", "x", "_", "1">>, Date |-> <<"2", "0", "2", "5", "-", "1", "-", "5">>,
     Amount |-> <<"-", "4", "5", ".", "6", "7">>,
     Description |-> <<"P", "u", "r", "c", "h", "a", "s", "e", " ", "o", "f", " ", "A", "p", "p", "l", "e", " ", "(", "A", "A", "P", "L", ")">>, Merchant |-> <<"A", "p", "p", "l", "e">>],
    [TransactionID |-> <<"t", "x", "_", "3">>, Date |-> <<"0", "1", "/", "1", "5", "/", "2", "0", "2", "5">>,
     Amount |-> <<"1", "2">>,
     Description |-> <<"C", "o", "f", "f", "e", "e">>, Merchant |-> << >>] }

\* Longest CSV of dated records.
MaxDated == 2

DatedCsvFiles == SeqsUpTo(DatedRecords, MaxDated)

DatesInit ==
  /\ csv_file \in DatedCsvFiles
  /\ transactions_worksheet = << >>
  /\ categories_worksheet = SeededCategoryRows
  /\ now = 0
  /\ pc = "idle"
  /\ entry = "none"
  /\ transactions = << >>
  /\ batch_size = 1
  /\ existing_transaction_ids = << >>
  /\ new_transactions = << >>
  /\ i = 0
  /\ rows_to_add = << >>
  /\ total_imported = 0
  /\ new_rows = 0
  /\ result = NoResult
  /\ all_updates = 0
  /\ update_i = 0
  /\ batch_updates = TRUE
  /\ format_i = 0
  /\ derived = NoTables
  /\ log = << >>
  /\ runs = 0
  /\ appended = 0
  /\ sink_errors = {}
  /\ prev = [imported |-> FALSE]
  /\ faults = 0
  /\ calls = << >>

SpecDates == DatesInit /\ [][Next]_vars

\* ------------------------------ imports while the Categories sheet is edited

\* Two records with the same description and merchant.
RuleTableRecords ==
  { [TransactionID |-> <<"t", "x", "_", "4">>, Amount |-> <<"-", "3">>,
     Description |-> <<"C", "o", "f", "f", "e", "e">>, Merchant |-> << >>],
    [TransactionID |-> <<"t", "x", "_", "5">>, Amount |-> <<"-", "4">>,
     Description |-> <<"C", "o", "f", "f", "e", "e">>, Merchant |-> << >>] }

RuleTableInit ==
  /\ csv_file \in SeqsUpTo(RuleTableRecords, MaxCsv)
  /\ transactions_worksheet = << >>
  /\ categories_worksheet = SeededCategoryRows
  /\ now = 0
  /\ pc = "idle"
  /\ entry = "none"
  /\ transactions = << >>
  /\ batch_size = 1
  /\ existing_transaction_ids = << >>
  /\ new_transactions = << >>
  /\ i = 0
  /\ rows_to_add = << >>
  /\ total_imported = 0
  /\ new_rows = 0
  /\ result = NoResult
  /\ all_updates = 0
  /\ update_i = 0
  /\ batch_updates = TRUE
  /\ format_i = 0
  /\ derived = NoTables
  /\ log = << >>
  /\ runs = 0
  /\ appended = 0
  /\ sink_errors = {}
  /\ prev = [imported |-> FALSE]
  /\ faults = 0
  /\ calls = << >>

\* The owner of the sheet replaces the rows of the Categories worksheet, at
\* any moment: the worksheet is shared, and categorize_transaction reads it
\* anew in every call (line 196 of the tracker).
EditCategories ==
  /\ categories_worksheet = SeededCategoryRows
  /\ categories_worksheet' = EditedCategoryRows
  /\ UNCHANGED <<csv_file, transactions_worksheet, now, pc, entry, transactions,
                 existing_transaction_ids, iwb_vars, i, new_rows, result, dash_vars,
                 log, runs, appended, sink_errors, prev, faults, calls>>

RuleTableNext == Next \/ EditCategories

SpecRuleTable == RuleTableInit /\ [][RuleTableNext]_vars

\* ================================================================ claims

\* The running call is over (or none has started).
CallOver == pc = "idle" /\ runs > 0

\* C1: every row of the persisted Transactions set has a category among the
\* seven of the enumeration, never an empty one, whatever the Categories
\* worksheet holds.
C1_CategoryInEnumeration ==
  \A k \in 1..Len(transactions_worksheet) :
     transactions_worksheet[k].Category \in CategoryEnum

\* C2: no two rows of the persisted Transactions set carry the same
\* transaction id.
C2_TransactionIdsUnique ==
  \A j, k \in 1..Len(transactions_worksheet) :
     j # k => transactions_worksheet[j].TransactionID # transactions_worksheet[k].TransactionID

\* The call before this one imported the same CSV file with every append
\* succeeding, and this call read the file and reached the same sheet.
Reimport ==
  /\ runs >= 2
  /\ prev.imported
  /\ transactions = csv_file
  /\ "open" \notin sink_errors

EveryAmountParses ==
  \A k \in 1..Len(csv_file) : amount_of(dict_get(csv_file[k], "Amount", <<"0">>)).parses

EveryRecordHasId ==
  \A k \in 1..Len(csv_file) : dict_get(csv_file[k], "TransactionID", << >>) # << >>

RECURSIVE Schedule(_, _, _, _)
Schedule(op, b, size, n_items) ==
  IF b >= num_batches(n_items, size) THEN << >>
  ELSE <<[op |-> op, lo |-> b * size + 1, hi |-> Min((b + 1) * size, n_items)]>>
       \o (IF b < num_batches(n_items, size) - 1
           THEN <<[op |-> "sleep", lo |-> 0, hi |-> 0]>> ELSE << >>)
       \o Schedule(op, b + 1, size, n_items)

\* The log without the outcomes of its calls.
Issued == [k \in 1..Len(log) |-> [op |-> log[k].op, lo |-> log[k].lo, hi |-> log[k].hi]]

\* import_with_batching has left its batch loop.
ImportLoopOver ==
  /\ entry = "iwb"
  /\ new_transactions # << >>
  /\ i = num_batches(Len(new_transactions), batch_size)

\* C4: the import loop issues ceil(N/B) groups of B writes (the last one the
\* rest) in input order, with a pacing delay after every group but the last,
\* whether or not a group's write fails.
C4_PartitionAndPacing ==
  ImportLoopOver =>
    Issued = Schedule("append_rows", 0, batch_size, Len(new_transactions))

\* update_dashboard is over, having queued its writes.
DashboardOver == pc = "idle" /\ all_updates > 0

\* C5: when the write of a group of dashboard updates fails, the groups after
\* it are still submitted: a finished update_dashboard(batch_updates=True)
\* has submitted every group.
C5_EveryUpdateGroupSubmitted ==
  (DashboardOver /\ batch_updates) =>
    Cardinality({k \in 1..Len(log) : log[k].op = "batch_update"})
      = num_batches(all_updates, UpdateBatchSize)

\* The records of the CSV the id filter keeps, and those among them whose
\* amount parses.
KeptRecords ==
  {k \in 1..Len(transactions) :
     ~in_list(dict_get(transactions[k], "TransactionID", << >>), existing_transaction_ids)}

ParsingKeptRecords ==
  {k \in KeptRecords : amount_of(dict_get(transactions[k], "Amount", <<"0">>)).parses}

\* C6: a record whose amount does not parse is the only one rejected: with
\* the sink working, a finished import has not raised and has appended every
\* other record that is no duplicate.
C6_MalformedAmountIsolated ==
  (CallOver /\ transactions = csv_file /\ sink_errors = {}) =>
     /\ result # Raised
     /\ appended = Cardinality(ParsingKeptRecords)

\* C7: a run that cannot open the sheet or read the id column stops before
\* it processes a record, and appends nothing.
C7_SinkUnavailableIsFatal ==
  (sink_errors \cap {"open", "ids"} # {}) => (pc = "idle" /\ appended = 0)

\* The transaction the classifier is given, in lower case, and the rows and
\* built-in entries a keyword of which occurs in it.
ClassifiedDescription == lower(csv_file[1].Description)

ClassifiedMerchant == lower(csv_file[1].Merchant)

TableHits ==
  {k \in 1..Len(categories_worksheet) :
     row_hits(categories_worksheet[k], ClassifiedDescription, ClassifiedMerchant)}

DefaultHits ==
  {k \in 1..Len(categories) :
     default_hits(categories[k], ClassifiedDescription, ClassifiedMerchant)}

FirstOf(S) == CHOOSE k \in S : \A j \in S : k <= j

\* C8: when keywords of several entries occur in the text, the entry that
\* comes first in the rule table gives the category (the rows of the
\* Categories worksheet in sheet order; the built-in entries in their order
\* when the worksheet cannot be read).
C8_EarliestEntryWins ==
  \A c \in 1..Len(calls) :
     /\ (calls[c].read_ok /\ TableHits # {})
          => calls[c].category = categories_worksheet[FirstOf(TableHits)][1]
     /\ (~calls[c].read_ok /\ DefaultHits # {})
          => calls[c].category = categories[FirstOf(DefaultHits)].category

\* Two rows of different categories both have a keyword in the text, and the
\* classifier has answered with the earlier one's.
C8_Witness ==
  \E c \in 1..Len(calls) : \E j, k \in TableHits :
     /\ calls[c].read_ok
     /\ j < k
     /\ categories_worksheet[j][1] # categories_worksheet[k][1]
     /\ calls[c].category = categories_worksheet[j][1]

\* C9 as claimed: a text in which a built-in keyword occurs and no keyword of
\* the Categories worksheet does gets the built-in entry's category.
C9_DefaultsAfterTable ==
  \A c \in 1..Len(calls) :
     (calls[c].read_ok /\ TableHits = {} /\ DefaultHits # {})
       => calls[c].category = categories[FirstOf(DefaultHits)].category

\* C9 as amended: the built-in entries stand in for the Categories worksheet
\* only when reading it fails.  When the worksheet is read and no row has a
\* hit, the income heuristic and then Other decide; when the read fails, the
\* first built-in entry with a hit decides, and the heuristic and Other only
\* if there is none.
C9_DefaultsOnlyWhenReadFails ==
  \A c \in 1..Len(calls) :
     /\ (calls[c].read_ok /\ TableHits = {})
          => calls[c].category = income_or_other(ClassifiedDescription)
     /\ ~calls[c].read_ok
          => calls[c].category =
               IF DefaultHits # {} THEN categories[FirstOf(DefaultHits)].category
               ELSE income_or_other(ClassifiedDescription)

\* A text with a built-in keyword and no worksheet keyword, classified once
\* with the worksheet read and once with the read failing, to different
\* categories.
C9_Witness ==
  /\ TableHits = {}
  /\ DefaultHits # {}
  /\ \E c1, c2 \in 1..Len(calls) :
        /\ calls[c1].read_ok
        /\ calls[c1].category \in {"Income", "Other"}
        /\ ~calls[c2].read_ok
        /\ calls[c2].category = categories[FirstOf(DefaultHits)].category
        /\ calls[c1].category # calls[c2].category

RunRows ==
  {k \in 1..Len(transactions_worksheet) : k > Len(transactions_worksheet) - appended}

EveryRecordLacksId ==
  \A k \in 1..Len(csv_file) : dict_get(csv_file[k], "TransactionID", << >>) = << >>

has_prefix(s, p) == Len(s) >= Len(p) /\ SubSeq(s, 1, Len(p)) = p

\* C11: the records of a run that come without a TransactionID (the column
\* absent, or the cell empty) each get an id of the form csv_<n>_<seconds>,
\* and no two of them get the same id, also within one batch and one clock
\* second.
C11_SynthesizedIdsUnique ==
  (EveryRecordLacksId /\ transactions = csv_file) =>
     /\ \A k \in RunRows :
           has_prefix(transactions_worksheet[k].TransactionID, <<"c", "s", "v", "_">>)
     /\ \A j, k \in RunRows :
           j # k => transactions_worksheet[j].TransactionID
                      # transactions_worksheet[k].TransactionID

\* import_with_batching has gone through its batch loop and returned.
ImportWithBatchingOver ==
  /\ CallOver
  /\ entry = "iwb"
  /\ result = ReturnTrue
  /\ new_transactions # << >>

FailedGroups == {k \in 1..Len(log) : log[k].op = "append_rows" /\ ~log[k].ok}

RECURSIVE RecordsIn(_)
RecordsIn(S) ==
  IF S = {} THEN 0
  ELSE LET k == CHOOSE j \in S : TRUE
       IN  log[k].hi - log[k].lo + 1 + RecordsIn(S \ {k})

RecordsOfFailedGroups == RecordsIn(FailedGroups)

\* The number of failed write groups a report states; a report without such
\* a figure states none.
ReportedFailedGroups(report) ==
  IF "failed_groups" \in DOMAIN report THEN report.failed_groups ELSE 0

\* C12: the figures reported at the end of an import run include the number
\* of write groups that failed, and records read = records skipped + records
\* imported + records of the failed groups.
C12_ReportCountsFailedGroups ==
  ImportWithBatchingOver =>
     /\ ReportedFailedGroups(final_report) = Cardinality(FailedGroups)
     /\ final_report.read = (final_report.read - final_report.new)
                              + final_report.imported + RecordsOfFailedGroups

FormatCalls == {k \in 1..Len(log) : log[k].op = "format"}

ValueWrites == {k \in 1..Len(log) : log[k].op \in {"batch_update", "update"}}

\* C16: in a run of update_dashboard every format call comes after the last
\* value write, and a format call that fails stops neither the formats after
\* it nor the run: once the formats have begun, the run ends only after all
\* of them have been called, and it returns normally.
C16_FormatsAfterValues ==
  /\ \A f \in FormatCalls : \A w \in ValueWrites : w < f
  /\ FormatCalls # {} =>
        IF pc = "idle"
        THEN /\ Cardinality(FormatCalls) = Len(all_formats)
             /\ result = (IF entry = "iwb" THEN ReturnTrue
                          ELSE IF entry = "fit" THEN ReturnInt(new_rows)
                          ELSE ReturnNone)
        ELSE pc = "dash_format"

\* A finished run in which a format call failed and formats were called
\* after it.
C16_Witness ==
  /\ pc = "idle"
  /\ ValueWrites # {}
  /\ \E f, g \in FormatCalls : f < g /\ ~log[f].ok

\* The calls of identify_transaction_type and of extract_stock_symbol made so far.
TypeCalls == {k \in 1..Len(calls) : calls[k].fn = "identify_transaction_type"}

SymbolCalls == {k \in 1..Len(calls) : calls[k].fn = "extract_stock_symbol"}

\* C17 as stated: a negative amount with a purchase-family keyword gives Buy
\* and a positive amount with a sale-family keyword gives Sell, whatever else
\* the description contains.
C17_SignAwareType ==
  \A k \in TypeCalls :
    LET desc == lower(calls[k].description)
    IN  /\ (calls[k].amount < 0 /\ any_in(PurchaseWords, desc)) => calls[k].type = "Buy"
        /\ (calls[k].amount > 0 /\ any_in(SaleWords, desc)) => calls[k].type = "Sell"

\* C17 (amended): for a description that does not contain 'initial fund
\* capital', a negative amount with a purchase-family keyword gives Buy and a
\* positive amount with a sale-family keyword gives Sell, whatever else the
\* description contains.
C17_SignAwareTypeUnlessCapital ==
  \A k \in TypeCalls :
    LET desc == lower(calls[k].description)
    IN  ~is_in(InitialFundCapital, desc) =>
          /\ (calls[k].amount < 0 /\ any_in(PurchaseWords, desc)) => calls[k].type = "Buy"
          /\ (calls[k].amount > 0 /\ any_in(SaleWords, desc)) => calls[k].type = "Sell"

\* A purchase with a negative amount whose description also names a dividend.
C17_Witness ==
  \E k \in TypeCalls :
    LET desc == lower(calls[k].description)
    IN  /\ calls[k].amount < 0
        /\ any_in(PurchaseWords, desc)
        /\ is_in(<<"d", "i", "v", "i", "d", "e", "n", "d">>, desc)
        /\ calls[k].type = "Buy"

\* The parenthesized tokens of a description whose content is one or more
\* characters of `chars`, as pairs of the positions of "(" and ")".
Tokens(d, chars) ==
  {pq \in (1..Len(d)) \X (1..Len(d)) :
     /\ pq[1] + 1 < pq[2]
     /\ d[pq[1]] = "("
     /\ d[pq[2]] = ")"
     /\ \A k \in (pq[1] + 1)..(pq[2] - 1) : d[k] \in chars}

\* The result is the content of the first token over `chars`, or None when
\* there is none.
FirstTokenOver(call, chars) ==
  LET d  == call.description
      ts == Tokens(d, chars)
  IN  IF ts = {} THEN call.stock = None
      ELSE \E pq \in ts :
             /\ \A rs \in ts : pq[1] <= rs[1]
             /\ call.stock = Some(SubSeq(d, pq[1] + 1, pq[2] - 1))

\* C20 as stated: extract_stock_symbol returns the content of the first
\* parenthesized token of upper-case letters only, None when there is no such
\* token, and never a token with another character.
C20_FirstUpperCaseToken ==
  \A k \in SymbolCalls :
    /\ FirstTokenOver(calls[k], DOMAIN UpperToLower)
    /\ \A c \in 1..Len(calls[k].stock.value) : calls[k].stock.value[c] \in DOMAIN UpperToLower

\* C20 (amended): extract_stock_symbol returns the content of the first
\* parenthesized token that consists only of upper-case letters and dots,
\* and None when the description has no such token; it never returns a token
\* with a character other than an upper-case letter or a dot.
C20_FirstUpperCaseOrDotToken ==
  \A k \in SymbolCalls :
    /\ FirstTokenOver(calls[k], DOMAIN UpperToLower \cup {"."})
    /\ \A c \in 1..Len(calls[k].stock.value) :
         calls[k].stock.value[c] \in DOMAIN UpperToLower \cup {"."}

\* A description with a lower-case token and then a token with a dot, which
\* is the one returned.
C20_Witness ==
  \E k \in SymbolCalls :
    /\ is_in(<<"(", "a", "a", "p", "l", ")">>, calls[k].description)
    /\ calls[k].stock = Some(<<"B", "R", "K", ".", "B">>)

\* The rows the tables were computed from: the month of a row is the
\* YYYY-MM its date begins with, its amount the number its cell denotes.
LedgerMonth(k) == SubSeq(transactions_worksheet[k].Date, 1, 7)

LedgerAmount(k) == to_float(transactions_worksheet[k].Amount)

LedgerStock(k) == extract_stock_symbol(transactions_worksheet[k].Description)

RECURSIVE SumOfRows(_)
SumOfRows(S) ==
  IF S = {} THEN 0
  ELSE LET k == CHOOSE k \in S : TRUE
       IN  LedgerAmount(k) + SumOfRows(S \ {k})

\* The monthly matrix of the last computation and what its columns are keyed
\* by: the stored category (dashboard) or the transaction type (charts).
MonthlyMatrix ==
  IF derived.kind = "dashboard" THEN derived.monthly_by_category ELSE derived.monthly_activity

MatrixColumn(k) ==
  IF derived.kind = "dashboard" THEN transactions_worksheet[k].Category
  ELSE identify_transaction_type(transactions_worksheet[k].Description, LedgerAmount(k))

C14_CumulativeBalanceOrdered ==
  derived.kind = "charts" =>
    LET balance == derived.cumulative_balance
        rows    == 1..Len(transactions_worksheet)
    IN  /\ \A n \in 1..(Len(balance) - 1) : text_less(balance[n][1], balance[n + 1][1])
        /\ {balance[n][1] : n \in 1..Len(balance)} = {LedgerMonth(k) : k \in rows}
        /\ \A n \in 1..Len(balance) :
             balance[n][2] =
               SumOfRows({k \in rows : \/ LedgerMonth(k) = balance[n][1]
                                       \/ text_less(LedgerMonth(k), balance[n][1])})

\* Rows given latest first, over a change of year, with two rows in one
\* month.
C14_Witness ==
  /\ derived.kind = "charts"
  /\ Len(derived.cumulative_balance) = 2
  /\ Len(transactions_worksheet) = 3
  /\ derived.cumulative_balance[1][1] = <<"2", "0", "2", "4", "-", "1", "2">>
  /\ LedgerMonth(1) = <<"2", "0", "2", "5", "-", "0", "2">>
  /\ LedgerMonth(3) = <<"2", "0", "2", "4", "-", "1", "2">>

SetOf(series) == {series[n] : n \in 1..Len(series)}

\* The signed sum of every account, and of every stock among the rows S.
AccountSums ==
  LET rows == 1..Len(transactions_worksheet)
  IN  {<<transactions_worksheet[k].Account,
         SumOfRows({j \in rows : transactions_worksheet[j].Account
                                   = transactions_worksheet[k].Account})>> : k \in rows}

StockSums(S) ==
  LET held == {k \in S : ~LedgerStock(k).is_none}
  IN  {<<LedgerStock(k).value, SumOfRows({j \in held : LedgerStock(j) = LedgerStock(k)})>> :
         k \in held}

CategoryRows(c) ==
  {k \in 1..Len(transactions_worksheet) : transactions_worksheet[k].Category = c}

CategoryTotal(c) == SumOfRows(CategoryRows(c))

\* The tables the code writes signed: the totals of capital, sales and
\* dividends, the portfolio value, fund allocation, stock holdings, fund
\* performance and dividends by stock, one entry for every group.
SignedTables ==
  LET stocks    == StockSums(1..Len(transactions_worksheet))
      dividends == StockSums(CategoryRows("Dividend"))
  IN  /\ derived.B4 = format_dollars(CategoryTotal("Capital"))
      /\ derived.B6 = format_dollars(CategoryTotal("Sell"))
      /\ derived.B7 = format_dollars(CategoryTotal("Dividend"))
      /\ derived.B9 = format_dollars(CategoryTotal("Capital") + CategoryTotal("Buy")
                                       + CategoryTotal("Sell") + CategoryTotal("Dividend")
                                       + CategoryTotal("Fee"))
      /\ SetOf(derived.fund_cells) = {<<e[1], format_dollars(e[2])>> : e \in AccountSums}
      /\ Len(derived.fund_cells) = Cardinality(AccountSums)
      /\ SetOf(derived.fund_rows) = AccountSums
      /\ Len(derived.fund_rows) = Cardinality(AccountSums)
      /\ SetOf(derived.stock_cells) = {<<e[1], format_dollars(e[2])>> : e \in stocks}
      /\ Len(derived.stock_cells) = Cardinality(stocks)
      /\ SetOf(derived.div_rows) = dividends
      /\ Len(derived.div_rows) = Cardinality(dividends)

\* C15 as stated: every value written into a derived table of the dashboard
\* is the signed sum of its group, none an absolute value, and no group is
\* left out because of the sign of its sum.
C15_SignedNeverInverted ==
  derived.kind = "dashboard" =>
    /\ SignedTables
    /\ derived.B5 = format_dollars(CategoryTotal("Buy"))
    /\ derived.B8 = format_dollars(CategoryTotal("Fee"))
    /\ SetOf(derived.stock_rows) = StockSums(1..Len(transactions_worksheet))

\* C15 (amended): every value written into the summary totals of capital,
\* sales, dividends and portfolio value, into fund allocation, stock
\* holdings, fund performance and dividends by stock is the signed sum of
\* its group, and no group is left out; Total Stock Purchases and Total Fees
\* are the absolute values of their signed sums, and Stock Allocation lists
\* the stocks whose signed sum is negative, and only those, each with the
\* absolute value of its sum.
C15_SignedExceptPurchasesFeesAllocation ==
  derived.kind = "dashboard" =>
    LET held == {s \in StockSums(1..Len(transactions_worksheet)) : s[2] < 0}
    IN  /\ SignedTables
        /\ derived.B5 = format_dollars(abs(CategoryTotal("Buy")))
        /\ derived.B8 = format_dollars(abs(CategoryTotal("Fee")))
        /\ SetOf(derived.stock_rows) = {<<e[1], abs(e[2])>> : e \in held}
        /\ Len(derived.stock_rows) = Cardinality(held)

\* A dashboard with purchases and fees, a fund whose sum is negative, one
\* stock whose sum is negative and one whose sum is positive.
C15_Witness ==
  /\ derived.kind = "dashboard"
  /\ CategoryTotal("Buy") < 0
  /\ CategoryTotal("Fee") < 0
  /\ \E e \in AccountSums : e[2] < 0
  /\ \E e \in StockSums(1..Len(transactions_worksheet)) : e[2] < 0
  /\ \E e \in StockSums(1..Len(transactions_worksheet)) : e[2] > 0

\* The date a row must carry for the record it was made from.
DateOfRecord(t) ==
  IF strptime(t.Date).ok THEN strftime_Y_m_d(strptime(t.Date)) ELSE t.Date

\* The rows made from the record t: prepared for a batch or appended.
RowsOfRecord(t) ==
  {row \in SetOf(transactions_worksheet) \cup SetOf(rows_to_add) :
     row.TransactionID = t.TransactionID}

\* C19: a record whose Date does not parse with "%Y-%m-%d" does not make the
\* import raise and is appended with the raw string as its date; a date that
\* parses is written as YYYY-MM-DD.  Every row made from a record carries
\* that date; a call the environment did not fail ends without raising and
\* with a row for every record of the CSV file.
C19_MalformedDateKept ==
  /\ \A k \in 1..Len(csv_file) :
       \A row \in RowsOfRecord(csv_file[k]) : row.Date = DateOfRecord(csv_file[k])
  /\ (CallOver /\ faults = 0) =>
       /\ result \in {ReturnTrue, ReturnInt(new_rows)}
       /\ \A k \in 1..Len(csv_file) :
            \E row \in SetOf(transactions_worksheet) :
              /\ row.TransactionID = csv_file[k].TransactionID
              /\ row.Date = DateOfRecord(csv_file[k])

\* A finished import that appended a row with the date 01/15/2025 as it was
\* read and a row whose date 2025-1-5 was written as 2025-01-05.
C19_Witness ==
  /\ CallOver
  /\ result \in {ReturnTrue, ReturnInt(new_rows)}
  /\ \E k \in 1..Len(csv_file) : csv_file[k].Date = <<"0", "1", "/", "1", "5", "/", "2", "0", "2", "5">>
  /\ \E row \in SetOf(transactions_worksheet) : row.Date = <<"0", "1", "/", "1", "5", "/", "2", "0", "2", "5">>
  /\ \E row \in SetOf(transactions_worksheet) : row.Date = <<"2", "0", "2", "5", "-", "0", "1", "-", "0", "5">>

\* The record of the CSV file a row was made from.
RecordOfRow(row) ==
  csv_file[CHOOSE k \in 1..Len(csv_file) : csv_file[k].TransactionID = row.TransactionID]

\* C18: all records of one import run are classified against one rule table,
\* the one in effect when the run started, also when the Categories table is
\* changed while the run goes on: with every read of the table succeeding,
\* two rows of one run whose records have the same description and merchant
\* have the same category.
C18_OneRuleTablePerRun ==
  faults = 0 =>
    \A j, k \in RunRows :
      LET a == transactions_worksheet[j]
          b == transactions_worksheet[k]
      IN  (/\ RecordOfRow(a).Description = RecordOfRow(b).Description
           /\ RecordOfRow(a).Merchant = RecordOfRow(b).Merchant)
            => a.Category = b.Category

\* The running (or last) call got past its reads of the sheet and of a CSV
\* file that holds records.
ReadsDone == runs > 0 /\ transactions = csv_file /\ csv_file # << >>

\* Column 6 of the rows the sheet held when the call started.
IdColumnAtStart ==
  [k \in 1..(Len(transactions_worksheet) - appended) |->
     transactions_worksheet[k].TransactionID]

\* The list is the id column as it stood at the start, up to its last
\* non-empty cell; an id read that failed leaves the empty list.
SnapshotOfStart ==
  LET col  == IdColumnAtStart
      snap == existing_transaction_ids
  IN  IF "ids" \in sink_errors THEN snap = << >>
      ELSE /\ Len(snap) <= Len(col)
           /\ snap = SubSeq(col, 1, Len(snap))
           /\ \A k \in (Len(snap) + 1)..Len(col) : col[k] = << >>
           /\ snap # << >> => snap[Len(snap)] # << >>

NotInSnapshot(t) == ~in_list(dict_get(t, "TransactionID", << >>), existing_transaction_ids)

\* The rows the running call has appended or prepared, in order.
RunRowSeq ==
  SubSeq(transactions_worksheet, Len(transactions_worksheet) - appended + 1,
         Len(transactions_worksheet)) \o rows_to_add

\* C21: the list of existing ids is the id column as read once at the start
\* of the run and is not changed by the run; the records kept are the
\* subsequence, in order, of the records whose TransactionID is not in that
\* list, a record's membership being decided against the list as loaded and
\* not against the rows the run has added.
C21_DedupAgainstSnapshot ==
  ReadsDone =>
    /\ SnapshotOfStart
    /\ entry = "iwb" => new_transactions = SelectSeq(transactions, NotInSnapshot)
    /\ (entry = "fit" /\ pc \in {"fit_loop", "fit_finish"}) =>
         LET kept == SelectSeq(SubSeq(transactions, 1, i), NotInSnapshot)
         IN  /\ Len(RunRowSeq) = Len(kept)
             /\ \A n \in 1..Len(kept) :
                  RunRowSeq[n].Amount = amount_of(dict_get(kept[n], "Amount", <<"0">>)).text
    /\ (entry = "iwb" /\ pc \in {"iwb_prepare", "iwb_write", "iwb_finish"}
          /\ "append" \notin sink_errors) =>
         /\ Len(RunRowSeq) <= Len(new_transactions)
         /\ \A n \in 1..Len(RunRowSeq) :
              RunRowSeq[n].Amount
                = amount_of(dict_get(new_transactions[n], "Amount", <<"0">>)).text

\* A run on a sheet that held rows, which has looked at two records, left
\* out one whose id was in the list and kept the other.
C21_Witness ==
  /\ ReadsDone
  /\ entry = "fit"
  /\ pc = "fit_finish"
  /\ existing_transaction_ids # << >>
  /\ i = 2
  /\ appended = 1
  /\ \E k \in 1..2 : ~NotInSnapshot(transactions[k])

\* ---------------------------------------------------------------------------
\* C22  Reported count matches committed rows: whenever
\* FinancialTracker.import_csv_transactions has returned, whether its record
\* loop ran to the end or stopped part-way (unparseable amount, failed append,
\* failed dashboard update), the integer it returned is the number of rows it
\* appended to the Transactions worksheet during that call.
C22_ReturnedCountIsAppended ==
  (CallOver /\ entry = "fit") => result = ReturnInt(appended)

\* ---------------------------------------------------------------------------
\* C23  Dashboard update trigger.  A step that ends an import_with_batching
\* run is the call of update_dashboard exactly when the run appended at
\* least one row; that call is entered once, from the end of the batch loop
\* with every write group attempted; and whether it returns or raises the
\* run returns True and the Transactions rows stay as they were.
EndsBatchingRun == entry = "iwb" /\ pc # "idle" /\ pc' = "idle"

AllGroupsAttempted == i = num_batches(Len(new_transactions), batch_size)

C23_DashboardTrigger ==
  [][ /\ EndsBatchingRun => (pc = "dash_start" <=> appended > 0)
      /\ (entry = "iwb" /\ pc # "dash_start" /\ pc' = "dash_start")
           => pc = "iwb_finish" /\ AllGroupsAttempted
      /\ (EndsBatchingRun /\ pc = "dash_start")
           => /\ AllGroupsAttempted
              /\ result' = ReturnTrue
              /\ transactions_worksheet' = transactions_worksheet
              /\ appended' = appended ]_vars

\* ---------------------------------------------------------------------------
\* C24  Dashboard layout is overlap-free.  For the writes update_dashboard
\* queues from a worksheet with at least one transaction: every write lies
\* in columns A-B or in columns D onward; the title, summary, fund-allocation
\* and stock-holdings sections are the ones in columns A-B and the chart
\* data sections (monthly matrix, stock allocation, fund performance,
\* dividend income) the ones in columns D onward; no two writes share a
\* cell; and two writes of different sections of one column block share no
\* row.  The queue has one write for every cell or block the data calls for.
RowsOverlap(u, v) == u.top <= v.bottom /\ v.top <= u.bottom

ColumnsOverlap(u, v) == u.left <= v.right /\ v.left <= u.right

InColumnsAB(u) == u.right <= 2

InColumnsDOnward(u) == u.left >= 4

SectionsAB == {"title", "summary", "fund_allocation", "stock_holdings"}

SectionsD ==
  {"chart_data", "monthly_activity", "stock_allocation", "fund_performance",
   "dividend_income"}

\* The counts the queue depends on, read from the tables and the worksheet.
ShapeOfData ==
  [funds |-> Len(derived.fund_rows), stocks |-> Len(derived.stock_cells),
   months |-> Len(derived.monthly_by_category.index),
   held |-> Len(derived.stock_rows),
   dividend |-> \E k \in 1..Len(transactions_worksheet) :
                  transactions_worksheet[k].Category = "Dividend",
   dividend_stocks |-> Len(derived.div_rows)]

C24_LayoutOverlapFree ==
  derived.kind = "dashboard" =>
    LET writes == derived.all_updates
        n      == Len(writes)
    IN  /\ transactions_worksheet # << >>
        /\ n = dashboard_update_count(ShapeOfData)
        /\ \A p \in 1..n :
             /\ writes[p].top >= 1 /\ writes[p].top <= writes[p].bottom
             /\ writes[p].left <= writes[p].right
             /\ \/ InColumnsAB(writes[p]) /\ writes[p].section \in SectionsAB
                \/ InColumnsDOnward(writes[p]) /\ writes[p].section \in SectionsD
        /\ \A p \in 1..n : \A r \in (p + 1)..n :
             /\ ~(RowsOverlap(writes[p], writes[r]) /\ ColumnsOverlap(writes[p], writes[r]))
             /\ (/\ InColumnsAB(writes[p]) <=> InColumnsAB(writes[r])
                 /\ writes[p].section # writes[r].section)
                  => ~RowsOverlap(writes[p], writes[r])

\* Two funds, two stocks of which one is held, two months and a dividend
\* stock: every section has rows, and the dividend rows stand at row 23.
C24_Witness ==
  /\ derived.kind = "dashboard"
  /\ ShapeOfData = [funds |-> 2, stocks |-> 2, months |-> 2, held |-> 1,
                    dividend |-> TRUE, dividend_stocks |-> 1]
  /\ \E p \in 1..Len(derived.all_updates) :
       /\ derived.all_updates[p].section = "dividend_income"
       /\ derived.all_updates[p].top = 23
       /\ derived.all_updates[p].right = 5

====
